---- MODULE Spec2Model ----
(***************************************************************************)
(* A model of the extraction-and-fusion pipeline of doj_jbook.etl:         *)
(*   - fuse_r3_with_r2            (etl/fusion.py)                          *)
(*   - the R-1D row walker and the workbook/XML readers                    *)
(*                                (etl/xml_r3_parser.py)                   *)
(*   - the R-2 narrative lookup   (etl/r2_parser.py, cli/pipeline.py)      *)
(*   - the batch run              (cli/batch.py)                           *)
(*                                                                         *)
(* Spec is the batch run: parse_r3_projects over a list of files, the scan *)
(* of the PDFs for the R-2 bundles, then fusion.  SpecFuse is fusion on    *)
(* its own over every row list and lookup within bounds, SpecWalk the row  *)
(* walker on its own over every row sequence within bounds and SpecWalkLive *)
(* the same walk on a finite worksheet.  SpecCells reads the FY cells of   *)
(* generic rows and XML cost lines, SpecSheet searches one worksheet for   *)
(* its header row and maps it, SpecExtract carves the R-2 sections of the  *)
(* pages matched for one PE.  SpecTag is the thread pool of                *)
(* tag_relevance_batch (analysis/llm_tagging.py).                          *)
(*                                                                         *)
(* Python values are encoded as follows.  A str is the sequence of its     *)
(* characters, so that strip(), lower(), upper() and the substring test    *)
(* are computed and not assumed.  An Optional[str] is a str or None, where *)
(* None is a one-element tuple that no str equals.  An Optional[float] or  *)
(* Optional[bool] is <<>> (None) or the one-element tuple <<v>>.           *)
(***************************************************************************)
EXTENDS Integers, Sequences, FiniteSets, TLC

(***************************************************************************)
(* Python str and None                                                     *)
(***************************************************************************)
None == <<"None">>

NoneVal == <<>>

Some(v) == <<v>>

Whitespace == {" ", "\t", "\n"}

\* truthiness of an Optional[str]: None and "" are falsy
Truthy(v) == v # None /\ v # <<>>

\* Python's  a or b  on Optional[str]
Or(a, b) == IF Truthy(a) THEN a ELSE b

LowerTable ==
  ("A" :> "a") @@ ("B" :> "b") @@ ("C" :> "c") @@ ("D" :> "d") @@
  ("E" :> "e") @@ ("F" :> "f") @@ ("G" :> "g") @@ ("H" :> "h") @@
  ("I" :> "i") @@ ("J" :> "j") @@ ("K" :> "k") @@ ("L" :> "l") @@
  ("M" :> "m") @@ ("N" :> "n") @@ ("O" :> "o") @@ ("P" :> "p") @@
  ("Q" :> "q") @@ ("R" :> "r") @@ ("S" :> "s") @@ ("T" :> "t") @@
  ("U" :> "u") @@ ("V" :> "v") @@ ("W" :> "w") @@ ("X" :> "x") @@
  ("Y" :> "y") @@ ("Z" :> "z")

UpperTable ==
  ("a" :> "A") @@ ("b" :> "B") @@ ("c" :> "C") @@ ("d" :> "D") @@
  ("e" :> "E") @@ ("f" :> "F") @@ ("g" :> "G") @@ ("h" :> "H") @@
  ("i" :> "I") @@ ("j" :> "J") @@ ("k" :> "K") @@ ("l" :> "L") @@
  ("m" :> "M") @@ ("n" :> "N") @@ ("o" :> "O") @@ ("p" :> "P") @@
  ("q" :> "Q") @@ ("r" :> "R") @@ ("s" :> "S") @@ ("t" :> "T") @@
  ("u" :> "U") @@ ("v" :> "V") @@ ("w" :> "W") @@ ("x" :> "X") @@
  ("y" :> "Y") @@ ("z" :> "Z")

LowerChar(c) == IF c \in DOMAIN LowerTable THEN LowerTable[c] ELSE c

UpperChar(c) == IF c \in DOMAIN UpperTable THEN UpperTable[c] ELSE c

\* str.lower()
Lower(s) == [i \in 1..Len(s) |-> LowerChar(s[i])]

\* str.upper()
Upper(s) == [i \in 1..Len(s) |-> UpperChar(s[i])]

SetMin(S) == CHOOSE x \in S : \A y \in S : x <= y

RECURSIVE LStrip(_)
LStrip(s) == IF s # <<>> /\ Head(s) \in Whitespace THEN LStrip(Tail(s)) ELSE s

RECURSIVE RStrip(_)
RStrip(s) == IF s # <<>> /\ s[Len(s)] \in Whitespace
             THEN RStrip(SubSeq(s, 1, Len(s) - 1)) ELSE s

\* str.strip(): leading and trailing whitespace removed
Strip(s) == RStrip(LStrip(s))

\* Python's  sub in s  on str
Contains(s, sub) ==
  \E i \in 0..(Len(s) - Len(sub)) : \A j \in 1..Len(sub) : s[i + j] = sub[j]

\* _norm(s) == (s or "").strip()
Norm(s) == Strip(Or(s, <<>>))

(***************************************************************************)
(* State                                                                   *)
(***************************************************************************)
VARIABLES
  pc,                   \* position of the running operation
  \* fuse_r3_with_r2 and its caller
  r3_rows,              \* the parsed cost-line rows handed to fusion
  narr,                 \* per PE, what the R-2 extractor carved from the PDF
  r2_lookup,            \* PE -> bundle, built before fusion begins
  use_r1d_description,  \* the fallback switch
  fuse_i,               \* how many rows the fusion loop has consumed
  enriched,             \* fusion's output list
  \* _parse_r1d_sheet
  hdr_map,              \* canonical field -> column index (0-based)
  walk,                 \* the walker's locals: context, blank_streak, results
  row_vals,             \* the cell values of the row read last
  rows_read,            \* how many non-blank rows the worksheet has yielded
  last_marker,          \* history: the kind of the latest context row,
                        \* "none", "PE" or "PROJECT"
  \* parse_r3_projects and run_batch
  xml_paths,            \* the input file list
  path_i,               \* how many paths the parse loop has consumed
  results,              \* parse_r3_projects' result list
  origins,              \* history: per record of results, <<file, a, b, c>>,
                        \* the place in the input it was read from
  open_handles,         \* workbook / document handles opened and not closed
  skip_r2,              \* run_batch's skip_r2 switch
  pdf_files,            \* the PDF list
  pdf_i,                \* the PDF being scanned (1-based)
  still,                \* the PEs left to try on the current PDF
  unresolved,           \* the PEs without a bundle so far
  \* extract_r2_sections_for_pe
  pages,                \* the texts of the pages matched for the PE
  \* _find_header_row and _header_map within _parse_xlsx_file
  sheet_rows,           \* the rows of the worksheet at hand
  header_rows,          \* history: what each call of _find_header_row on
                        \* the worksheet returned, 0 standing for None
  \* tag_relevance_batch, the threaded path
  tag_rows,             \* the rows to tag
  api_key,              \* is OPENAI_API_KEY set
  installed,            \* is the openai package importable
  concurrency,          \* the size of the thread pool
  futures,              \* per row, the state of its task, what the LLM did
                        \* (history) and what the task returned
  out,                  \* the slots the main thread fills
  tags                  \* the returned list

fvars == <<r3_rows, narr, r2_lookup, use_r1d_description, fuse_i, enriched>>

svars == <<sheet_rows, header_rows>>

wvars == <<hdr_map, walk, row_vals, rows_read, last_marker, svars>>

pvars == <<xml_paths, path_i, results, origins, open_handles>>

tvars == <<tag_rows, api_key, installed, concurrency, futures, out, tags>>

bvars == <<skip_r2, pdf_files, pdf_i, still, unresolved, pages, tvars>>

vars == <<pc, fvars, wvars, pvars, bvars>>

(***************************************************************************)
(* Bounds and input alphabets                                              *)
(***************************************************************************)
MaxFuseRows == 2

sEmpty == <<>>

sBlank == <<" ">>

sA1 == <<"A", "1">>

sA1Padded == <<" ", "A", "1", " ">>

sB2 == <<"B", "2">>

sMission == <<"m">>

sAccomp == <<"a">>

sAcq == <<"q">>

sDesc == <<" ", "d", " ">>

sDescTrimmed == <<"d">>

(***************************************************************************)
(* etl/r2_parser.py: the bundle extract_r2_sections_for_pe returns         *)
(***************************************************************************)
\* str(bool(b))
StrBool(b) == IF b THEN <<"T", "r", "u", "e">> ELSE <<"F", "a", "l", "s", "e">>

\* the return statement: the three carved sections and the stringified flag
R2Return(c) ==
  [mission         |-> c.mission,
   accomplishments |-> c.accomplishments,
   acquisition     |-> c.acquisition,
   is_new_start    |-> IF c.flag = NoneVal THEN None ELSE StrBool(c.flag[1])]

(***************************************************************************)
(* etl/fusion.py: fuse_r3_with_r2                                          *)
(***************************************************************************)
\* r2_lookup.get(pe, {}) followed by .get(key): every key of {} reads None
EmptyBundle ==
  [mission |-> None, accomplishments |-> None, acquisition |-> None,
   is_new_start |-> None]

LookupGet(lookup, pe) == IF pe \in DOMAIN lookup THEN lookup[pe] ELSE EmptyBundle

TrueWords == {<<"t", "r", "u", "e">>, <<"y", "e", "s">>, <<"1">>}

FalseWords == {<<"f", "a", "l", "s", "e">>, <<"n", "o">>, <<"0">>}

\* mutant: the flag is compared without lower-casing it
DecodeNewStartCaseSensitive(val) ==
  IF val = None THEN NoneVal
  ELSE IF val \in TrueWords THEN Some(TRUE)
  ELSE IF val \in FalseWords THEN Some(FALSE)
  ELSE NoneVal

\* lines 25-31: the flag of the bundle, decoded to Optional[bool]
DecodeNewStart(val) ==
  IF val = None THEN NoneVal
  ELSE IF Lower(val) \in TrueWords THEN Some(TRUE)
  ELSE IF Lower(val) \in FalseWords THEN Some(FALSE)
  ELSE NoneVal

\* mutant: the fallback switch is not consulted
FallbackAppliesIgnoringSwitch(use_desc, text, r1d_desc) ==
  ~Truthy(text) /\ Truthy(r1d_desc)

\* mutant: the description replaces a narrative text that is present
FallbackAppliesOverwriting(use_desc, text, r1d_desc) ==
  use_desc /\ Truthy(r1d_desc)

\* lines 38-42: the guard of each fallback substitution
FallbackApplies(use_desc, text, r1d_desc) ==
  use_desc /\ ~Truthy(text) /\ Truthy(r1d_desc)

\* mutant: only a missing text is replaced, an empty one is kept
WithFallbackWhenNone(use_desc, text, r1d_desc) ==
  IF use_desc /\ text = None /\ Truthy(r1d_desc) THEN r1d_desc ELSE text

\* lines 34, 39-42: a narrative text after the optional fallback
WithFallback(use_desc, text, r1d_desc) ==
  IF FallbackApplies(use_desc, text, r1d_desc) THEN r1d_desc ELSE text

\* lines 23-60: the loop body, one EnrichedRecord from one row
FuseRow(source_file, row, lookup, use_desc) ==
  LET pe       == Strip(Or(row.PENumber, <<>>))
      pe_texts == LookupGet(lookup, pe)
      r1d_desc == Strip(Or(row.R1D_Description, <<>>))
  IN  [SourceFile              |-> source_file,
       PENumber                |-> row.PENumber,
       PEName                  |-> row.PEName,
       ProjectNumber           |-> row.ProjectNumber,
       ProjectName             |-> row.ProjectName,
       CostCategory            |-> row.CostCategory,
       FY2023_Cost             |-> row.FY2023_Cost,
       FY2024_Cost             |-> row.FY2024_Cost,
       FY2025_Base_Cost        |-> row.FY2025_Base_Cost,
       AccomplishmentsText     |->
         WithFallback(use_desc, pe_texts.accomplishments, r1d_desc),
       AcquisitionStrategyText |-> pe_texts.acquisition,
       IsNewStart              |-> DecodeNewStart(pe_texts.is_new_start),
       MissionDescriptionText  |->
         WithFallback(use_desc, pe_texts.mission, r1d_desc)]

\* mutant: an inner join, a row without a bundle yields no record
FuseStepInnerJoin ==
  /\ pc = "fuse"
  /\ fuse_i < Len(r3_rows)
  /\ fuse_i' = fuse_i + 1
  /\ enriched' =
       IF Strip(Or(r3_rows[fuse_i + 1].PENumber, <<>>)) \in DOMAIN r2_lookup
       THEN Append(enriched,
              FuseRow("batch", r3_rows[fuse_i + 1], r2_lookup,
                      use_r1d_description))
       ELSE enriched
  /\ UNCHANGED <<pc, r3_rows, narr, r2_lookup, use_r1d_description, wvars, pvars, bvars>>

\* mutant: the substituted description is stored in the bundle of the lookup
FuseStepWritingBack ==
  /\ pc = "fuse"
  /\ fuse_i < Len(r3_rows)
  /\ fuse_i' = fuse_i + 1
  /\ enriched' = Append(enriched,
                   FuseRow("batch", r3_rows[fuse_i + 1], r2_lookup,
                           use_r1d_description))
  /\ r2_lookup' =
       IF Strip(Or(r3_rows[fuse_i + 1].PENumber, <<>>)) \in DOMAIN r2_lookup
       THEN [r2_lookup EXCEPT
               ![Strip(Or(r3_rows[fuse_i + 1].PENumber, <<>>))].accomplishments =
                 enriched'[fuse_i + 1].AccomplishmentsText,
               ![Strip(Or(r3_rows[fuse_i + 1].PENumber, <<>>))].mission =
                 enriched'[fuse_i + 1].MissionDescriptionText]
       ELSE r2_lookup
  /\ UNCHANGED <<pc, r3_rows, narr, use_r1d_description, wvars, pvars, bvars>>

\* lines 22-60: one iteration of  for row in r3_rows
FuseStep ==
  /\ pc = "fuse"
  /\ fuse_i < Len(r3_rows)
  /\ fuse_i' = fuse_i + 1
  /\ enriched' = Append(enriched,
                   FuseRow("batch", r3_rows[fuse_i + 1], r2_lookup,
                           use_r1d_description))
  /\ UNCHANGED <<pc, r3_rows, narr, r2_lookup, use_r1d_description, wvars, pvars, bvars>>

\* line 62: the loop is exhausted, return enriched
FuseReturn ==
  /\ pc = "fuse"
  /\ fuse_i = Len(r3_rows)
  /\ pc' = "done"
  /\ UNCHANGED <<fvars, wvars, pvars, bvars>>

(***************************************************************************)
(* Cell values and number parsing (etl/xml_r3_parser.py)                   *)
(*                                                                         *)
(* A cell value is None, a str, or a number Num(n).  The model's numbers   *)
(* are the integers: the alphabets hold no literal with a non-zero         *)
(* fraction, an exponent, "inf" or "nan".                                  *)
(***************************************************************************)
Num(n) == <<"#num", n>>

IsNum(v) == Len(v) = 2 /\ v[1] = "#num"

IsStr(v) == v # None /\ ~IsNum(v)

Digits == <<"0", "1", "2", "3", "4", "5", "6", "7", "8", "9">>

IsDigit(c) == \E d \in 1..10 : Digits[d] = c

DigitVal(c) == (CHOOSE d \in 1..10 : Digits[d] = c) - 1

RECURSIVE NatStr(_)
NatStr(n) == IF n < 10 THEN <<Digits[n + 1]>>
             ELSE Append(NatStr(n \div 10), Digits[(n % 10) + 1])

\* str(v) of a cell value
PyStr(v) == IF IsNum(v)
            THEN (IF v[2] < 0 THEN <<"-">> \o NatStr(-v[2]) ELSE NatStr(v[2]))
            ELSE v

RECURSIVE DigitsVal(_)
DigitsVal(ds) == IF ds = <<>> THEN 0
                 ELSE 10 * DigitsVal(SubSeq(ds, 1, Len(ds) - 1)) + DigitVal(ds[Len(ds)])

AllDigits(ds) == \A i \in 1..Len(ds) : IsDigit(ds[i])

\* float(t): Some(value), or NoneVal where float() raises ValueError
PyFloat(t) ==
  LET u      == Strip(t)
      signed == u # <<>> /\ u[1] \in {"+", "-"}
      body   == IF signed THEN Tail(u) ELSE u
      dots   == {i \in 1..Len(body) : body[i] = "."}
      whole  == IF dots = {} THEN body ELSE SubSeq(body, 1, SetMin(dots) - 1)
      frac   == IF dots = {} THEN <<>> ELSE SubSeq(body, SetMin(dots) + 1, Len(body))
      ok     == /\ Cardinality(dots) <= 1
                /\ AllDigits(whole) /\ AllDigits(frac)
                /\ Len(whole) + Len(frac) > 0
                /\ \A i \in 1..Len(frac) : frac[i] = "0"
  IN  IF ~ok THEN NoneVal
      ELSE IF signed /\ u[1] = "-" THEN Some(0 - DigitsVal(whole))
      ELSE Some(DigitsVal(whole))

\* s.replace(",", "")
RemoveCommas(s) == SelectSeq(s, LAMBDA c : c # ",")

\* mutant: a cell that is no number counts as zero
ParseFloatSafeAnyZeroDefault(v) ==
  IF v = None THEN Some(0)
  ELSE IF IsNum(v) THEN Some(v[2])
  ELSE IF Strip(v) = <<>> THEN Some(0)
  ELSE IF PyFloat(Strip(RemoveCommas(v))) = NoneVal THEN Some(0)
  ELSE PyFloat(Strip(RemoveCommas(v)))

\* lines 24-35: _parse_float_safe_any
ParseFloatSafeAny(v) ==
  IF v = None THEN NoneVal
  ELSE IF IsNum(v) THEN Some(v[2])
  ELSE IF Strip(v) = <<>> THEN NoneVal
  ELSE PyFloat(Strip(RemoveCommas(v)))

(***************************************************************************)
(* etl/xml_r3_parser.py: _parse_r1d_sheet, the hierarchical row walker     *)
(***************************************************************************)
BlankStreakLimit == 10

sPE == <<"P", "E">>

sPROJECT == <<"P", "R", "O", "J", "E", "C", "T">>

sPROJECTS == <<"P", "R", "O", "J", "E", "C", "T", "S">>

sPRJ == <<"P", "R", "J">>

sAPP == <<"A", "/", "P", "P">>

sCA == <<"C", "A">>

sProjectTotals == <<"P", "r", "o", "j", "e", "c", "t", " ", "T", "o", "t", "a", "l", "s">>

sTotalsLower == <<"t", "o", "t", "a", "l", "s">>

sSumOfLower == <<"s", "u", "m", " ", "o", "f">>

\* lines 134-139: gv(row_vals, key)
Gv(hm, rv, key) ==
  IF key \notin DOMAIN hm \/ hm[key] >= Len(rv) THEN None
  ELSE IF rv[hm[key] + 1] = None THEN None
  ELSE Strip(PyStr(rv[hm[key] + 1]))

\* line 145: every cell is None or a str that is blank
IsBlankRow(rv) ==
  \A i \in 1..Len(rv) : rv[i] = None \/ (IsStr(rv[i]) /\ Strip(rv[i]) = <<>>)

\* line 152
RowType(hm, rv) == Upper(Or(Gv(hm, rv, "Type"), <<>>))

\* line 155
RowTitle(hm, rv) == Or(Gv(hm, rv, "Title"), <<>>)

\* line 189: the category text of a leaf row
LeafCategory(hm, rv) ==
  Norm(Or(RowTitle(hm, rv), Or(Gv(hm, rv, "Description"), RowType(hm, rv))))

\* mutant: only the exact text "project totals" is recognised
IsTotalsSummaryExactOnly(cc_lower) == cc_lower = Lower(sProjectTotals)

\* line 197: a summary duplicate, by its lower-cased category
IsTotalsSummary(cc_lower) ==
  \/ Contains(cc_lower, sTotalsLower) /\ Contains(cc_lower, sSumOfLower)
  \/ cc_lower = Lower(sProjectTotals)

\* lines 129-132, 142: the locals before the first row
WalkStart ==
  [current_pe_num |-> None, current_pe_name |-> None,
   current_proj_num |-> None, current_proj_name |-> None,
   blank_streak |-> 0, results |-> <<>>]

\* lines 168-178 and 184-194: the record of a row under context w
WalkRecord(w, hm, rv, category) ==
  [PENumber         |-> Norm(w.current_pe_num),
   PEName           |-> Norm(w.current_pe_name),
   ProjectNumber    |-> Norm(w.current_proj_num),
   ProjectName      |-> Norm(w.current_proj_name),
   CostCategory     |-> category,
   FY2023_Cost      |-> ParseFloatSafeAny(Gv(hm, rv, "FY2023_Cost")),
   FY2024_Cost      |-> ParseFloatSafeAny(Gv(hm, rv, "FY2024_Cost")),
   FY2025_Base_Cost |-> ParseFloatSafeAny(Gv(hm, rv, "FY2025_Base_Cost")),
   R1D_Description  |-> Or(Gv(hm, rv, "Description"), <<>>)]

\* mutant: a PE row leaves the project context in place
WalkPERowKeepingProject(w, hm, rv) ==
  [w EXCEPT !.blank_streak = 0,
            !.current_pe_num = Or(Gv(hm, rv, "PENumber"), w.current_pe_num),
            !.current_pe_name = Or(RowTitle(hm, rv), w.current_pe_name)]

\* lines 158-163: a PE row
WalkPERow(w, hm, rv) ==
  [w EXCEPT !.blank_streak = 0,
            !.current_pe_num = Or(Gv(hm, rv, "PENumber"), w.current_pe_num),
            !.current_pe_name = Or(RowTitle(hm, rv), w.current_pe_name),
            !.current_proj_num = None,
            !.current_proj_name = None]

\* mutant: the record of a PROJECT row is built before the project context
\* is updated
WalkProjectRowStaleContext(w, hm, rv) ==
  LET c == [w EXCEPT !.blank_streak = 0,
                     !.current_proj_num =
                        Or(Gv(hm, rv, "ProjectNumber"), w.current_proj_num),
                     !.current_proj_name =
                        Or(RowTitle(hm, rv), w.current_proj_name)]
  IN  [c EXCEPT !.results = Append(c.results, WalkRecord(w, hm, rv, sProjectTotals))]

\* lines 164-180: a PROJECT row
WalkProjectRow(w, hm, rv) ==
  LET c == [w EXCEPT !.blank_streak = 0,
                     !.current_proj_num =
                        Or(Gv(hm, rv, "ProjectNumber"), w.current_proj_num),
                     !.current_proj_name =
                        Or(RowTitle(hm, rv), w.current_proj_name)]
  IN  [c EXCEPT !.results = Append(c.results, WalkRecord(c, hm, rv, sProjectTotals))]

\* mutant: a leaf row is kept only under a PE context
WalkLeafRowNeedingPE(w, hm, rv) ==
  LET typ == RowType(hm, rv)
      rec == WalkRecord(w, hm, rv, LeafCategory(hm, rv))
      c   == [w EXCEPT !.blank_streak = 0]
  IN  IF typ \in {sAPP, sCA} \/ (typ # <<>> /\ typ \notin {sPE, sPROJECT})
      THEN IF IsTotalsSummary(Lower(rec.CostCategory)) THEN c
           ELSE IF rec.PENumber # <<>>
                THEN [c EXCEPT !.results = Append(c.results, rec)]
                ELSE c
      ELSE c

\* mutant: a row without a Type is emitted like a cost row
WalkLeafRowEmittingUntyped(w, hm, rv) ==
  LET rec == WalkRecord(w, hm, rv, LeafCategory(hm, rv))
      c   == [w EXCEPT !.blank_streak = 0]
  IN  IF IsTotalsSummary(Lower(rec.CostCategory)) THEN c
      ELSE IF rec.PENumber # <<>> \/ rec.ProjectNumber # <<>>
              \/ rec.CostCategory # <<>>
           THEN [c EXCEPT !.results = Append(c.results, rec)]
           ELSE c

\* lines 183-202: any other row
WalkLeafRow(w, hm, rv) ==
  LET typ == RowType(hm, rv)
      rec == WalkRecord(w, hm, rv, LeafCategory(hm, rv))
      c   == [w EXCEPT !.blank_streak = 0]
  IN  IF typ \in {sAPP, sCA} \/ (typ # <<>> /\ typ \notin {sPE, sPROJECT})
      THEN IF IsTotalsSummary(Lower(rec.CostCategory)) THEN c
           ELSE IF rec.PENumber # <<>> \/ rec.ProjectNumber # <<>>
                   \/ rec.CostCategory # <<>>
                THEN [c EXCEPT !.results = Append(c.results, rec)]
                ELSE c
      ELSE c

\* mutant: a non-blank row leaves the count of blank rows as it was
R1dRowCountingAllBlanks(w, hm, rv) ==
  IF IsBlankRow(rv) THEN [w EXCEPT !.blank_streak = w.blank_streak + 1]
  ELSE IF RowType(hm, rv) = sPE
       THEN [WalkPERow(w, hm, rv) EXCEPT !.blank_streak = w.blank_streak]
  ELSE IF RowType(hm, rv) \in {sPROJECT, sPROJECTS, sPRJ}
       THEN [WalkProjectRow(w, hm, rv) EXCEPT !.blank_streak = w.blank_streak]
  ELSE [WalkLeafRow(w, hm, rv) EXCEPT !.blank_streak = w.blank_streak]

\* lines 144-202: the loop body on one row (the break is taken by the caller
\* when blank_streak reaches the limit)
R1dRow(w, hm, rv) ==
  IF IsBlankRow(rv) THEN [w EXCEPT !.blank_streak = w.blank_streak + 1]
  ELSE IF RowType(hm, rv) = sPE THEN WalkPERow(w, hm, rv)
  ELSE IF RowType(hm, rv) \in {sPROJECT, sPROJECTS, sPRJ} THEN WalkProjectRow(w, hm, rv)
  ELSE WalkLeafRow(w, hm, rv)

(***************************************************************************)
(* etl/xml_r3_parser.py: header detection and the field map                *)
(***************************************************************************)
MaxSearchRows == 50

GenericBlankLimit == 5

\* str.endswith
EndsWith(s, suf) ==
  Len(suf) <= Len(s) /\ SubSeq(s, Len(s) - Len(suf) + 1, Len(s)) = suf

\* str.startswith
StartsWith(s, pre) == Len(pre) <= Len(s) /\ SubSeq(s, 1, Len(pre)) = pre

\* lines 79, 95: a header cell as text, trimmed and lower-cased ("" for None)
HeaderText(cell) == IF cell = None THEN <<>> ELSE Lower(Strip(PyStr(cell)))

RECURSIVE JoinWithSpace(_)
\* " ".join(values)
JoinWithSpace(vs) ==
  IF vs = <<>> THEN <<>>
  ELSE IF Len(vs) = 1 THEN vs[1]
  ELSE vs[1] \o <<" ">> \o JoinWithSpace(Tail(vs))

\* lines 79-88: does this row carry one of the three header signatures
IsHeaderRow(row) ==
  LET values == [i \in 1..Len(row) |-> HeaderText(row[i])]
      joined == JoinWithSpace(values)
      any(P(_)) == \E i \in 1..Len(values) : P(values[i])
  IN  \/ /\ Contains(joined, <<"p", "r", "o", "j", "e", "c", "t">>)
         /\ Contains(joined, <<"p", "r", "o", "g", "r", "a", "m">>)
         /\ Contains(joined, <<"e", "l", "e", "m", "e", "n", "t">>)
      \/ /\ any(LAMBDA v : Contains(v, <<"p", "r", "o", "g", "r", "a", "m", " ", "e", "l", "e", "m", "e", "n", "t">>))
         /\ any(LAMBDA v : Contains(v, <<"p", "r", "o", "j", "e", "c", "t">>))
      \/ /\ any(LAMBDA v : v = <<"t", "y", "p", "e">>)
         /\ any(LAMBDA v : Contains(v, <<"p", "e", "#">>))
         /\ any(LAMBDA v : Contains(v, <<"p", "r", "o", "j", "e", "c", "t", "#">>))

\* mutant: the search goes on below row MaxSearchRows
HeaderCandidatesAnywhere(rows) ==
  {i \in 1..Len(rows) : IsHeaderRow(rows[i])}

\* the rows _find_header_row reads: up to the first header row, at most
\* MaxSearchRows
HeaderCandidates(rows) ==
  {i \in 1..Len(rows) : i <= MaxSearchRows /\ IsHeaderRow(rows[i])}

\* the first of the candidate rows, 0 standing for None
FirstOrNone(candidates) == IF candidates = {} THEN 0 ELSE SetMin(candidates)

\* lines 75-89: _find_header_row, 0 standing for None
FindHeaderRow(rows) == FirstOrNone(HeaderCandidates(rows))

\* the last row _find_header_row reads when it returns h
HeaderScanEnd(rows, h) ==
  IF h # 0 THEN h
  ELSE IF Len(rows) < MaxSearchRows THEN Len(rows) ELSE MaxSearchRows

\* lines 98-123: does header text v (non-empty) claim the field
FieldMatches(field, v) ==
  CASE field = "PENumber" ->
         \/ /\ Contains(v, <<"p", "r", "o", "g", "r", "a", "m", " ", "e", "l", "e", "m", "e", "n", "t">>)
            /\ (Contains(v, <<"n", "u", "m", "b", "e", "r">>) \/ EndsWith(v, <<"p", "r", "o", "g", "r", "a", "m", " ", "e", "l", "e", "m", "e", "n", "t">>))
         \/ v = <<"p", "e", "#">>
    [] field = "PEName" ->
         \/ Contains(v, <<"p", "r", "o", "g", "r", "a", "m", " ", "e", "l", "e", "m", "e", "n", "t", " ", "n", "a", "m", "e">>)
         \/ Contains(v, <<"p", "e", " ", "n", "a", "m", "e">>)
         \/ EndsWith(v, <<"t", "i", "t", "l", "e">>) /\ Contains(v, <<"p", "r", "o", "g", "r", "a", "m", " ", "e", "l", "e", "m", "e", "n", "t">>)
    [] field = "ProjectNumber" ->
         Contains(v, <<"p", "r", "o", "j", "e", "c", "t", " ", "n", "u", "m", "b", "e", "r">>) \/ v = <<"p", "r", "o", "j", "e", "c", "t">> \/ v = <<"p", "r", "o", "j", "e", "c", "t", "#">>
    [] field = "ProjectName" ->
         Contains(v, <<"p", "r", "o", "j", "e", "c", "t", " ", "n", "a", "m", "e">>) \/ Contains(v, <<"p", "r", "o", "j", "e", "c", "t", " ", "t", "i", "t", "l", "e">>)
    [] field = "CostCategory" ->
         \/ Contains(v, <<"c", "o", "s", "t", " ", "c", "a", "t", "e", "g", "o", "r", "y">>)
         \/ Contains(v, <<"c", "o", "s", "t", " ", "e", "l", "e", "m", "e", "n", "t">>)
         \/ Contains(v, <<"l", "i", "n", "e", " ", "i", "t", "e", "m">>)
    [] field = "Type" -> v = <<"t", "y", "p", "e">>
    [] field = "Title" ->
         \/ Contains(v, <<"a", "c", "c", "o", "m", "p", "l", "i", "s", "h", "m", "e", "n", "t", "s", "/", "p", "l", "a", "n", "n", "e", "d", " ", "p", "r", "o", "g", "r", "a", "m", "s", " ", "t", "i", "t", "l", "e">>)
         \/ StartsWith(v, <<"p", "e", "/", "p", "r", "o", "j", "e", "c", "t", "/">>)
    [] field = "Description" -> v = <<"d", "e", "s", "c", "r", "i", "p", "t", "i", "o", "n">>
    [] field = "FY2023_Cost" ->
         Contains(v, <<"f", "y", "2", "0", "2", "3">>) \/ v = <<"f", "y", " ", "2", "0", "2", "3">> \/ v = <<"f", "y", "2", "3">>
    [] field = "FY2024_Cost" ->
         Contains(v, <<"f", "y", "2", "0", "2", "4">>) \/ v = <<"f", "y", " ", "2", "0", "2", "4">> \/ v = <<"f", "y", "2", "4">>
    [] field = "FY2025_Base_Cost" ->
         \/ Contains(v, <<"f", "y", " ", "2", "0", "2", "5", " ", "b", "a", "s", "e">>)
         \/ v = <<"f", "y", "2", "5", " ", "b", "a", "s", "e">>
         \/ Contains(v, <<"f", "y", "2", "0", "2", "5">>) /\ Contains(v, <<"b", "a", "s", "e">>)
         \/ Contains(v, <<"f", "y", "2", "0", "2", "5", " ", "b", "a", "s", "e">>)

CanonicalFields ==
  {"PENumber", "PEName", "ProjectNumber", "ProjectName", "CostCategory", "Type",
   "Title", "Description", "FY2023_Cost", "FY2024_Cost", "FY2025_Base_Cost"}

\* the columns (0-based) whose header text claims the field
FieldColumns(cells, field) ==
  {i - 1 : i \in {k \in 1..Len(cells) :
                    HeaderText(cells[k]) # <<>> /\ FieldMatches(field, HeaderText(cells[k]))}}

\* lines 92-124: _header_map; setdefault keeps the first column of a field
HeaderMap(cells) ==
  [f \in {g \in CanonicalFields : FieldColumns(cells, g) # {}} |->
     SetMin(FieldColumns(cells, f))]

\* line 226: the sheet goes to the row walker
IsR1dMap(hm) == {"Type", "PENumber", "ProjectNumber"} \subseteq DOMAIN hm

(***************************************************************************)
(* etl/xml_r3_parser.py: the XML reader                                    *)
(*                                                                         *)
(* A parsed document is the list of its program-element elements, each     *)
(* with the list of its project elements, each with the list of its        *)
(* cost-category elements, all in document order; an element's number,     *)
(* name and FY values are what the attribute / child-text alias chain      *)
(* yields (None when no alias is present).                                 *)
(***************************************************************************)
\* lines 10-17: _parse_float_safe
ParseFloatSafe(v) ==
  IF v = None THEN NoneVal ELSE PyFloat(Strip(RemoveCommas(v)))

RECURSIVE Flatten(_)
Flatten(ss) == IF ss = <<>> THEN <<>> ELSE Head(ss) \o Flatten(Tail(ss))

\* lines 62-71: the record of one cost-category element
XmlRecord(pe, proj, cc) ==
  [PENumber         |-> Norm(pe.number),
   PEName           |-> Norm(pe.name),
   ProjectNumber    |-> Norm(proj.number),
   ProjectName      |-> Norm(proj.name),
   CostCategory     |-> Norm(cc.name),
   FY2023_Cost      |-> ParseFloatSafe(cc.FY2023),
   FY2024_Cost      |-> ParseFloatSafe(cc.FY2024),
   FY2025_Base_Cost |-> ParseFloatSafe(cc.FY2025Base),
   R1D_Description  |-> None]

\* lines 52-71: the records of one project element, each with its place
XmlProjectRecords(pe, i, proj, j) ==
  [k \in 1..Len(proj.lines) |->
     [rec |-> XmlRecord(pe, proj, proj.lines[k]), at |-> <<i, j, k>>]]

\* lines 47-71: the records of one program element; none without a number
XmlPERecords(pe, i) ==
  IF ~Truthy(pe.number) THEN <<>>
  ELSE Flatten([j \in 1..Len(pe.projects) |->
                  XmlProjectRecords(pe, i, pe.projects[j], j)])

\* lines 38-72: _parse_xml_file
ParseXmlFile(f) ==
  IF ~f.xml_ok THEN <<>>
  ELSE Flatten([i \in 1..Len(f.doc) |-> XmlPERecords(f.doc[i], i)])

(***************************************************************************)
(* etl/xml_r3_parser.py: the workbook reader                               *)
(*                                                                         *)
(* A worksheet is its rows and fault_at: 0, or the index of the row whose  *)
(* read raises (the rows of a read-only workbook are parsed lazily).       *)
(***************************************************************************)
\* lines 245-254: the record of a generic data row
GenericRecord(hm, rv) ==
  [PENumber         |-> Norm(Gv(hm, rv, "PENumber")),
   PEName           |-> Norm(Gv(hm, rv, "PEName")),
   ProjectNumber    |-> Norm(Gv(hm, rv, "ProjectNumber")),
   ProjectName      |-> Norm(Gv(hm, rv, "ProjectName")),
   CostCategory     |-> Norm(Gv(hm, rv, "CostCategory")),
   FY2023_Cost      |-> ParseFloatSafeAny(Gv(hm, rv, "FY2023_Cost")),
   FY2024_Cost      |-> ParseFloatSafeAny(Gv(hm, rv, "FY2024_Cost")),
   FY2025_Base_Cost |-> ParseFloatSafeAny(Gv(hm, rv, "FY2025_Base_Cost")),
   R1D_Description  |-> None]

\* mutant: a row without identifiers is appended like any other
GenericKeepEveryRow(acc, rec, i, si) ==
  Append(acc, [rec |-> rec, at |-> <<si, i, 0>>])

\* lines 255-258: a row without PENumber and ProjectNumber is skipped, any
\* other is appended
GenericKeep(acc, rec, i, si) ==
  IF rec.PENumber = <<>> /\ rec.ProjectNumber = <<>> THEN acc
  ELSE Append(acc, [rec |-> rec, at |-> <<si, i, 0>>])

RECURSIVE GenericFrom(_, _, _, _, _, _, _)
\* lines 230-258: the generic data rows from row i on
GenericFrom(rows, i, hm, blank_streak, acc, fault_at, si) ==
  IF i > Len(rows) THEN [raised |-> FALSE, tagged |-> acc]
  ELSE IF i = fault_at THEN [raised |-> TRUE, tagged |-> <<>>]
  ELSE IF IsBlankRow(rows[i])
       THEN IF blank_streak + 1 >= GenericBlankLimit
            THEN [raised |-> FALSE, tagged |-> acc]
            ELSE GenericFrom(rows, i + 1, hm, blank_streak + 1, acc, fault_at, si)
  ELSE GenericFrom(rows, i + 1, hm, 0,
                   GenericKeep(acc, GenericRecord(hm, rows[i]), i, si),
                   fault_at, si)

\* the records of the walker, each with the row that produced it
WalkTagged(w, ats) ==
  [k \in 1..Len(w.results) |-> [rec |-> w.results[k], at |-> ats[k]]]

\* the rows that produced the records of w2, the successor of w at row i
WalkAts(w, w2, ats, i, si) ==
  IF Len(w2.results) > Len(w.results) THEN Append(ats, <<si, i, 0>>) ELSE ats

RECURSIVE R1dFrom(_, _, _, _, _, _, _), R1dAfter(_, _, _, _, _, _, _, _)
\* lines 143-204: the walker over the rows from row i on; it stops at the
\* end of the sheet or after BlankStreakLimit blank rows
R1dFrom(rows, i, hm, w, ats, fault_at, si) ==
  IF i > Len(rows) \/ w.blank_streak >= BlankStreakLimit
  THEN [raised |-> FALSE, tagged |-> WalkTagged(w, ats)]
  ELSE IF i = fault_at THEN [raised |-> TRUE, tagged |-> <<>>]
  ELSE R1dAfter(rows, i, hm, w, R1dRow(w, hm, rows[i]), ats, fault_at, si)

\* the walker has made w2 of w at row i
R1dAfter(rows, i, hm, w, w2, ats, fault_at, si) ==
  R1dFrom(rows, i + 1, hm, w2, WalkAts(w, w2, ats, i, si), fault_at, si)

NoRecords == [raised |-> FALSE, tagged |-> <<>>]

\* lines 222-258: the rows below header row h, whose map is hm
SheetBelowHeader(sheet, si, h, hm) ==
  IF DOMAIN hm = {} THEN NoRecords
  ELSE IF IsR1dMap(hm)
       THEN R1dFrom(sheet.rows, h + 1, hm, WalkStart, <<>>, sheet.fault_at, si)
  ELSE GenericFrom(sheet.rows, h + 1, hm, 0, <<>>, sheet.fault_at, si)

\* lines 215-221: _find_header_row has returned h
SheetAfterSearch(sheet, si, h) ==
  IF sheet.fault_at # 0 /\ sheet.fault_at <= HeaderScanEnd(sheet.rows, h)
  THEN [raised |-> TRUE, tagged |-> <<>>]
  ELSE IF h = 0 THEN NoRecords
  ELSE SheetBelowHeader(sheet, si, h, HeaderMap(sheet.rows[h]))

\* lines 214-258: one worksheet (the si-th of its workbook)
ParseSheet(sheet, si) == SheetAfterSearch(sheet, si, FindHeaderRow(sheet.rows))

RECURSIVE SheetsFrom(_, _, _)
\* line 213: the records of a worksheet follow those of the sheets before
SheetsAfter(sheets, si, acc, r) ==
  IF r.raised THEN [raised |-> TRUE, tagged |-> <<>>]
  ELSE SheetsFrom(sheets, si + 1, acc \o r.tagged)

\* line 213: for sheet in wb.worksheets
SheetsFrom(sheets, si, acc) ==
  IF si > Len(sheets) THEN [raised |-> FALSE, tagged |-> acc]
  ELSE SheetsAfter(sheets, si, acc, ParseSheet(sheets[si], si))

\* lines 209-213: load_workbook returned a workbook, r is what came of its
\* worksheets
OfOpenedWorkbook(r) == [opened |-> 1, raised |-> r.raised, tagged |-> r.tagged]

\* lines 207-259: _parse_xlsx_file; opened counts the workbook handles that
\* load_workbook returned, none of which is closed
ParseXlsxFile(f) ==
  IF ~f.wb_ok THEN [opened |-> 0, raised |-> FALSE, tagged |-> <<>>]
  ELSE OfOpenedWorkbook(SheetsFrom(f.sheets, 1, <<>>))

(***************************************************************************)
(* etl/xml_r3_parser.py: parse_r3_projects                                 *)
(***************************************************************************)
\* os.path.splitext(path)[1]
SplitExt(path) ==
  LET seps == {i \in 1..Len(path) : path[i] = "/"}
      sep  == IF seps = {} THEN 0 ELSE -SetMin({-i : i \in seps})
      dots == {i \in (sep + 1)..Len(path) : path[i] = "."}
      dot  == IF dots = {} THEN 0 ELSE -SetMin({-i : i \in dots})
  IN  IF dot = 0 THEN <<>>
      ELSE IF \E k \in (sep + 1)..(dot - 1) : path[k] # "."
           THEN SubSeq(path, dot, Len(path))
      ELSE <<>>

XmlExtensions == {<<".", "x", "m", "l">>, <<".", "x", "l", "s">>, <<".", "x", "l", "t">>, <<".", "m", "x", "l">>}

XlsxExtensions == {<<".", "x", "l", "s", "x">>, <<".", "x", "l", "s", "m">>}

\* mutant: every extension outside the XML list goes to _parse_xlsx_file
GoesToXlsxWithoutXmlFirst(ext, f) == ext \notin XmlExtensions

\* lines 279-289: is the path handed to _parse_xlsx_file: by its extension,
\* or, with any other extension, when the XML reader found no records
GoesToXlsx(ext, f) ==
  \/ ext \in XlsxExtensions
  \/ ext \notin XmlExtensions /\ ParseXmlFile(f) = <<>>

\* lines 276-289: the loop body for one path
ParseFile(f) ==
  IF ~f.isfile THEN [opened |-> 0, raised |-> FALSE, tagged |-> <<>>]
  ELSE IF GoesToXlsx(Lower(SplitExt(f.path)), f) THEN ParseXlsxFile(f)
  ELSE [opened |-> 0, raised |-> FALSE, tagged |-> ParseXmlFile(f)]

\* mutant: the records of a file go in front of those of earlier files
ExtendResultsInFront(res, new) == new \o res

\* lines 280, 282, 287, 289: results.extend(...)
ExtendResults(res, new) == res \o new

(***************************************************************************)
(* Fusion on its own: every row list and narrative mapping within bounds   *)
(***************************************************************************)
\* a cost-line row as the parsers build it, with the identifiers and the
\* description drawn from the alphabets above
FuseInputRows ==
  [PENumber         : {sA1, sA1Padded, sB2},
   PEName           : {<<"n">>},
   ProjectNumber    : {<<"7">>},
   ProjectName      : {sEmpty},
   CostCategory     : {<<"c">>},
   FY2023_Cost      : {Some(10)},
   FY2024_Cost      : {NoneVal},
   FY2025_Base_Cost : {Some(0)},
   R1D_Description  : {None, sEmpty, sBlank, sDesc}]

\* what the extractor can carve for one PE
CarvedSet ==
  [mission         : {None, sEmpty, sMission},
   accomplishments : {None, sEmpty, sAccomp},
   acquisition     : {None, sAcq},
   flag            : {NoneVal, Some(TRUE), Some(FALSE)}]

SeqsUpTo(S, n) == UNION {[1..k -> S] : k \in 0..n}

EmptyMap == [k \in {} |-> None]

\* the header row of an R-1D worksheet
R1dHeaderRow ==
  <<<<"T", "y", "p", "e">>, <<"P", "E", "#">>, <<"P", "r", "o", "j", "e", "c", "t", "#">>,
    <<"A", "c", "c", "o", "m", "p", "l", "i", "s", "h", "m", "e", "n", "t", "s", "/", "P", "l", "a", "n", "n", "e", "d", " ", "P", "r", "o", "g", "r", "a", "m", "s", " ", "T", "i", "t", "l", "e">>,
    <<"D", "e", "s", "c", "r", "i", "p", "t", "i", "o", "n">>, <<"F", "Y", "2", "0", "2", "3">>, <<"F", "Y", "2", "0", "2", "4">>, <<"F", "Y", "2", "0", "2", "5", " ", "B", "a", "s", "e">>>>

\* an R-1D header row with only the three dispatch columns
BareHeaderRow == <<<<"T", "y", "p", "e">>, <<"P", "E", "#">>, <<"P", "r", "o", "j", "e", "c", "t", "#">>>>

FullHeaderMap == HeaderMap(R1dHeaderRow)

BareHeaderMap == HeaderMap(BareHeaderRow)

\* parse_r3_projects and run_batch are not running
\* tag_relevance_batch is not running
TagIdle ==
  /\ tag_rows = <<>>
  /\ api_key = FALSE
  /\ installed = FALSE
  /\ concurrency = 1
  /\ futures = <<>>
  /\ out = <<>>
  /\ tags = <<>>

BatchIdle ==
  /\ TagIdle
  /\ xml_paths = <<>>
  /\ path_i = 0
  /\ results = <<>>
  /\ origins = <<>>
  /\ open_handles = 0
  /\ skip_r2 = TRUE
  /\ pdf_files = <<>>
  /\ pdf_i = 0
  /\ still = {}
  /\ unresolved = {}
  /\ pages = <<>>

\* no worksheet is being searched for its header
SheetIdle ==
  /\ sheet_rows = <<>>
  /\ header_rows = <<>>

\* the walker is not running
WalkIdle ==
  /\ hdr_map = BareHeaderMap
  /\ walk = WalkStart
  /\ row_vals = <<>>
  /\ rows_read = 0
  /\ last_marker = "none"
  /\ SheetIdle

InitFuse ==
  /\ pc = "fuse"
  /\ r3_rows \in SeqsUpTo(FuseInputRows, MaxFuseRows)
  /\ narr \in {EmptyMap} \cup [{sA1} -> CarvedSet]
  /\ r2_lookup = [k \in DOMAIN narr |-> R2Return(narr[k])]
  /\ use_r1d_description \in BOOLEAN
  /\ fuse_i = 0
  /\ enriched = <<>>
  /\ WalkIdle
  /\ BatchIdle

NextFuse == FuseStep \/ FuseReturn

SpecFuse == InitFuse /\ [][NextFuse]_vars

\* fusion is not running
FuseIdle ==
  /\ r3_rows = <<>>
  /\ narr = EmptyMap
  /\ r2_lookup = EmptyMap
  /\ use_r1d_description = FALSE
  /\ fuse_i = 0
  /\ enriched = <<>>

(***************************************************************************)
(* The row walker on its own: a worksheet yields rows one at a time        *)
(***************************************************************************)
MaxWalkRows == 3

sTitleHyp == <<"H", "y", "p">>

sTitleFlt == <<"F", "l", "t">>

sTitleTest == <<"T", "e", "s", "t">>

sPEPadded == <<" ", "p", "e", " ">>

sPeMixed == <<"P", "e">>

sProjectMixed == <<"P", "r", "o", "j", "e", "c", "t">>

sPrjLower == <<"p", "r", "j">>

sCaLower == <<"c", "a">>

sTypeX == <<"X">>

sProj001 == <<"0", "0", "1">>

sProj9 == <<"9">>

sSumOfProjectTotals == <<"S", "u", "m", " ", "o", "f", " ", "P", "r", "o", "j", "e", "c", "t", " ", "T", "o", "t", "a", "l", "s">>

sProjectTotalsShouting == <<" ", "P", "r", "o", "j", "e", "c", "t", " ", "T", "O", "T", "A", "L", "S", " ">>

sSubtotals == <<"S", "u", "b", "t", "o", "t", "a", "l", "s", ",", " ", "s", "u", "m", " ", "o", "f", " ", "A">>

sTotalsOnly == <<"T", "o", "t", "a", "l", "s">>

sTwelve == <<"1", "2">>

sFifteenHundred == <<"1", ",", "5", "0", "0">>

sNotANumber == <<"n", "/", "a">>

sZero == <<"0">>

WalkHeaderMaps == {FullHeaderMap, BareHeaderMap}

\* a worksheet row: Type, PE#, Project#, Title, Description, three FY cells
SheetRow(typ, pe, proj, title, desc, fy23, fy24, fy25) ==
  <<typ, pe, proj, title, desc, fy23, fy24, fy25>>

WalkRows ==
  { SheetRow(None, None, None, None, None, None, None, None),
    SheetRow(None, sBlank, None, sEmpty, None, None, None, None),
    SheetRow(sPE, sA1, None, sTitleHyp, None, None, None, None),
    SheetRow(sPEPadded, None, None, None, None, None, None, None),
    SheetRow(sPeMixed, sB2, sProj9, sBlank, None, None, None, None),
    SheetRow(sProjectMixed, None, sProj001, sTitleFlt, sDesc, Num(10), sTwelve, sFifteenHundred),
    SheetRow(sPrjLower, None, None, None, None, None, sNotANumber, Num(0)),
    SheetRow(sAPP, None, None, sTitleTest, sDesc, sZero, None, Num(3)),
    SheetRow(sCA, None, None, None, sSumOfProjectTotals, Num(25), None, None),
    SheetRow(sCaLower, None, None, sProjectTotalsShouting, None, Num(25), None, None),
    SheetRow(sTypeX, None, None, sSubtotals, None, None, None, None),
    SheetRow(sCA, None, None, sTotalsOnly, None, None, None, None),
    SheetRow(None, sA1, sProj001, sTitleTest, sDescTrimmed, Num(7), None, None),
    SheetRow(sBlank, None, None, sTitleTest, None, None, Num(7), None),
    <<sCA>> }

\* lines 143-202: the worksheet yields the row rv and the loop body runs on
\* it; the tenth blank row in a run breaks out of the loop
WalkOn(rv) ==
  /\ pc = "walk"
  /\ row_vals' = rv
  /\ walk' = R1dRow(walk, hdr_map, rv)
  /\ rows_read' = IF IsBlankRow(rv) THEN rows_read ELSE rows_read + 1
  /\ last_marker' =
       IF IsBlankRow(rv) THEN last_marker
       ELSE IF RowType(hdr_map, rv) = sPE THEN "PE"
       ELSE IF RowType(hdr_map, rv) \in {sPROJECT, sPROJECTS, sPRJ} THEN "PROJECT"
       ELSE last_marker
  /\ pc' = IF walk'.blank_streak >= BlankStreakLimit THEN "walked" ELSE "walk"
  /\ UNCHANGED <<hdr_map, svars, fvars, pvars, bvars>>

WalkBlankRowStep == \E rv \in WalkRows : IsBlankRow(rv) /\ WalkOn(rv)

WalkPERowStep ==
  \E rv \in WalkRows :
    /\ rows_read < MaxWalkRows
    /\ ~IsBlankRow(rv) /\ RowType(hdr_map, rv) = sPE
    /\ WalkOn(rv)

WalkProjectRowStep ==
  \E rv \in WalkRows :
    /\ rows_read < MaxWalkRows
    /\ ~IsBlankRow(rv) /\ RowType(hdr_map, rv) \in {sPROJECT, sPROJECTS, sPRJ}
    /\ WalkOn(rv)

WalkLeafRowStep ==
  \E rv \in WalkRows :
    /\ rows_read < MaxWalkRows
    /\ ~IsBlankRow(rv)
    /\ RowType(hdr_map, rv) \notin {sPE, sPROJECT, sPROJECTS, sPRJ}
    /\ WalkOn(rv)

\* line 204: the worksheet has no more rows, return results
WalkReturn ==
  /\ pc = "walk"
  /\ pc' = "walked"
  /\ UNCHANGED <<fvars, wvars, pvars, bvars>>

InitWalk ==
  /\ pc = "walk"
  /\ hdr_map \in WalkHeaderMaps
  /\ walk = WalkStart
  /\ row_vals = <<>>
  /\ rows_read = 0
  /\ last_marker = "none"
  /\ SheetIdle
  /\ FuseIdle
  /\ BatchIdle

NextWalk ==
  \/ WalkBlankRowStep
  \/ WalkPERowStep
  \/ WalkProjectRowStep
  \/ WalkLeafRowStep
  \/ WalkReturn

SpecWalk == InitWalk /\ [][NextWalk]_vars

MaxLiveRows == 2

\* the walk over worksheets of at most MaxLiveRows non-blank rows
LivePERowStep == rows_read < MaxLiveRows /\ WalkPERowStep

LiveProjectRowStep == rows_read < MaxLiveRows /\ WalkProjectRowStep

LiveLeafRowStep == rows_read < MaxLiveRows /\ WalkLeafRowStep

NextWalkLive ==
  \/ WalkBlankRowStep
  \/ LivePERowStep
  \/ LiveProjectRowStep
  \/ LiveLeafRowStep
  \/ WalkReturn

\* the worksheet is finite: unless the walk has stopped before, iter_rows is
\* exhausted at some point
SpecWalkLive == InitWalk /\ [][NextWalkLive]_vars /\ WF_vars(WalkReturn)

(***************************************************************************)
(* parse_r3_projects followed by run_batch's R-2 scan and fusion           *)
(***************************************************************************)
MaxFiles == 2

\* the header row of a generic worksheet
GenericHeaderRow ==
  <<<<"P", "r", "o", "g", "r", "a", "m", " ", "E", "l", "e", "m", "e", "n", "t", " ", "N", "u", "m", "b", "e", "r">>, <<"P", "r", "o", "j", "e", "c", "t", " ", "N", "u", "m", "b", "e", "r">>, <<"C", "o", "s", "t", " ", "C", "a", "t", "e", "g", "o", "r", "y">>, <<"F", "Y", "2", "0", "2", "3">>>>

BlankRow4 == <<None, None, None, None>>

\* a worksheet of an R-1D workbook: a title line, the header, a PE row, a
\* PROJECT row, a cost row, a summary row and a second cost row
R1dSheetRows ==
  << <<<<"E", "x", "h", "i", "b", "i", "t", " ", "R", "-", "1", "D">>>>,
     R1dHeaderRow,
     SheetRow(sPE, sA1, None, sTitleHyp, None, None, None, None),
     SheetRow(sProjectMixed, None, sProj001, sTitleFlt, sDesc, Num(10), sTwelve, sFifteenHundred),
     SheetRow(sAPP, None, None, sTitleTest, sDesc, sZero, None, Num(3)),
     SheetRow(sCA, None, None, None, sSumOfProjectTotals, Num(25), None, None),
     SheetRow(sCA, None, None, sTotalsOnly, None, None, None, None) >>

\* a generic worksheet: the header, a data row, a blank row, a row without
\* identifiers and a second data row
GenericSheetRows ==
  << GenericHeaderRow,
     <<sB2, <<"0", "0", "2">>, <<"L", "a", "b", "o", "r">>, Num(4)>>,
     BlankRow4,
     <<None, None, <<"O", "r", "p", "h", "a", "n">>, Num(1)>>,
     <<sB2, <<"0", "0", "3">>, <<"T", "r", "a", "v", "e", "l">>, sNotANumber>> >>

\* a worksheet without any header row
NoHeaderSheetRows == << <<<<"N", "o", "t", "e", "s">>>>, <<<<"n", "/", "a">>, Num(1)>> >>

\* an XML export: a program element with two projects, one without a
\* number, and one whose number is a blank
XmlDocA ==
  << [number |-> sA1Padded, name |-> sTitleHyp,
      projects |->
        << [number |-> sProj001, name |-> sTitleFlt,
            lines |-> << [name |-> <<"L", "a", "b", "o", "r">>, FY2023 |-> <<"1", ",", "0", "0", "0">>,
                          FY2024 |-> None, FY2025Base |-> <<"5">>],
                         [name |-> <<"T", "r", "a", "v", "e", "l">>, FY2023 |-> sNotANumber,
                          FY2024 |-> sZero, FY2025Base |-> None] >>],
           [number |-> None, name |-> None,
            lines |-> << [name |-> None, FY2023 |-> None,
                          FY2024 |-> None, FY2025Base |-> None] >>] >>],
     [number |-> None, name |-> sTitleTest,
      projects |->
        << [number |-> sProj9, name |-> None,
            lines |-> << [name |-> <<"L", "o", "s", "t">>, FY2023 |-> <<"1">>,
                          FY2024 |-> None, FY2025Base |-> None] >>] >>],
     [number |-> sBlank, name |-> None,
      projects |->
        << [number |-> None, name |-> None,
            lines |-> << [name |-> None, FY2023 |-> sBlank,
                          FY2024 |-> None, FY2025Base |-> None] >>] >>] >>

NoFile ==
  [path |-> <<>>, isfile |-> FALSE, xml_ok |-> FALSE, doc |-> <<>>,
   wb_ok |-> FALSE, sheets |-> <<>>]

\* the files an input list can name
Files ==
  [x |-> [NoFile EXCEPT !.path = <<"i", "n", "/", "a", ".", "x", "m", "l">>, !.isfile = TRUE,
                        !.xml_ok = TRUE, !.doc = XmlDocA],
   r |-> [NoFile EXCEPT !.path = <<"i", "n", "/", "r", "1", "d", ".", "x", "l", "s", "x">>, !.isfile = TRUE, !.wb_ok = TRUE,
                        !.sheets = << [rows |-> NoHeaderSheetRows, fault_at |-> 0],
                                      [rows |-> R1dSheetRows, fault_at |-> 0] >>],
   g |-> [NoFile EXCEPT !.path = <<"i", "n", "/", "g", "e", "n", ".", "X", "L", "S", "X">>, !.isfile = TRUE, !.wb_ok = TRUE,
                        !.sheets = << [rows |-> GenericSheetRows, fault_at |-> 0] >>],
   z |-> [NoFile EXCEPT !.path = <<"i", "n", "/", "n", "o", "t", "z", "i", "p", ".", "x", "l", "s", "x">>, !.isfile = TRUE],
   h |-> [NoFile EXCEPT !.path = <<"i", "n", "/", "c", "u", "t", "1", ".", "x", "l", "s", "x">>, !.isfile = TRUE, !.wb_ok = TRUE,
                        !.sheets = << [rows |-> R1dSheetRows, fault_at |-> 1] >>],
   d |-> [NoFile EXCEPT !.path = <<"i", "n", "/", "c", "u", "t", "2", ".", "x", "l", "s", "m">>, !.isfile = TRUE, !.wb_ok = TRUE,
                        !.sheets = << [rows |-> GenericSheetRows, fault_at |-> 5] >>],
   b |-> [NoFile EXCEPT !.path = <<"i", "n", "/", "b", "a", "d", ".", "x", "m", "l">>, !.isfile = TRUE],
   o |-> [NoFile EXCEPT !.path = <<"i", "n", ".", "d", "/", "e", "x", "p", "o", "r", "t">>, !.isfile = TRUE, !.wb_ok = TRUE,
                        !.sheets = << [rows |-> GenericSheetRows, fault_at |-> 0] >>],
   m |-> [NoFile EXCEPT !.path = <<"i", "n", "/", "g", "o", "n", "e", ".", "x", "m", "l">>],
   l |-> [NoFile EXCEPT !.path = <<"i", "n", "/", "o", "l", "d", ".", "x", "l", "s">>, !.isfile = TRUE, !.wb_ok = TRUE,
                        !.sheets = << [rows |-> GenericSheetRows, fault_at |-> 0] >>],
   k |-> [NoFile EXCEPT !.path = <<"i", "n", "/", "k", ".", "m", "x", "l">>, !.isfile = TRUE, !.wb_ok = TRUE,
                        !.sheets = << [rows |-> GenericSheetRows, fault_at |-> 0] >>],
   y |-> [NoFile EXCEPT !.path = <<"i", "n", "/", "y", ".", "x", "l", "s", "m">>, !.isfile = TRUE,
                        !.xml_ok = TRUE, !.doc = XmlDocA],
   w |-> [NoFile EXCEPT !.path = <<"i", "n", "/", "w", ".", "X", "L", "T", ".", "d", "a", "t">>, !.isfile = TRUE,
                        !.xml_ok = TRUE, !.doc = XmlDocA] ]

FileIds == DOMAIN Files

\* what the loop body of parse_r3_projects makes of each file
Parsed == [id \in FileIds |-> ParseFile(Files[id])]

\* cli/batch.py lines 35-42: the gathered list holds no file twice
DistinctSeqsUpTo(S, n) ==
  {q \in UNION {[1..k -> S] : k \in 1..n} :
     \A i, j \in 1..Len(q) : i # j => q[i] # q[j]}

\* the PDFs a list can name: can the document be opened, and per PE with
\* matching R-2 pages what the extractor carves from them
Pdfs ==
  [p |-> [opens |-> TRUE, fails |-> {},
          carved |-> (sA1 :> [mission |-> sMission, accomplishments |-> None,
                              acquisition |-> sAcq, flag |-> Some(TRUE)])],
   q |-> [opens |-> TRUE, fails |-> {},
          carved |-> (sA1 :> [mission |-> sEmpty, accomplishments |-> sAccomp,
                              acquisition |-> None, flag |-> Some(FALSE)])
                     @@ (sB2 :> [mission |-> None, accomplishments |-> sEmpty,
                                 acquisition |-> None, flag |-> NoneVal])],
   e |-> [opens |-> TRUE, fails |-> {sA1},
          carved |-> (sA1 :> [mission |-> None, accomplishments |-> None,
                              acquisition |-> sAcq, flag |-> NoneVal])],
   c |-> [opens |-> FALSE, fails |-> {}, carved |-> EmptyMap] ]

PdfLists == {<<>>, <<"c", "p">>, <<"q">>, <<"p", "q">>, <<"e", "q">>}

\* cli/batch.py line 69: the unique non-empty trimmed PENumbers of the rows
UniquePEs(rows) ==
  {Strip(Or(rows[i].PENumber, <<>>)) : i \in 1..Len(rows)} \ {<<>>}

\* xml_r3_parser.py lines 275-289: one iteration of  for path in xml_paths.
\* An exception raised while a worksheet is read is caught nowhere in
\* _parse_xlsx_file, parse_r3_projects or run_batch.
ParseFileStep ==
  /\ pc = "parse"
  /\ path_i < Len(xml_paths)
  /\ LET r == Parsed[xml_paths[path_i + 1]]
     IN  /\ open_handles' = open_handles + r.opened
         /\ IF r.raised
            THEN /\ pc' = "raised"
                 /\ UNCHANGED <<path_i, results, origins>>
            ELSE /\ pc' = "parse"
                 /\ path_i' = path_i + 1
                 /\ results' = ExtendResults(results,
                                  [k \in 1..Len(r.tagged) |-> r.tagged[k].rec])
                 /\ origins' = ExtendResults(origins,
                                  [k \in 1..Len(r.tagged) |->
                                     <<path_i + 1>> \o r.tagged[k].at])
  /\ UNCHANGED <<xml_paths, fvars, wvars, bvars>>

\* xml_r3_parser.py line 291 and cli/batch.py lines 60-71: parse_r3_projects
\* returns; without PDFs (or with skip_r2) fusion is next
ParseReturn ==
  /\ pc = "parse"
  /\ path_i = Len(xml_paths)
  /\ r3_rows' = results
  /\ IF skip_r2 \/ pdf_files = <<>>
     THEN /\ pc' = "fuse"
          /\ UNCHANGED <<pdf_i, still, unresolved>>
     ELSE /\ pc' = "scan"
          /\ unresolved' = UniquePEs(results)
          /\ still' = UniquePEs(results)
          /\ pdf_i' = 1
  /\ UNCHANGED <<narr, r2_lookup, use_r1d_description, fuse_i, enriched,
                 wvars, pvars, skip_r2, pdf_files, pages, tvars>>

\* cli/batch.py lines 74-80 with r2_parser.py lines 37-53: the PDF cannot be
\* opened (find_r2_pages_for_pe raises) or has no R-2 page for the PE
ScanNoPages ==
  /\ pc = "scan"
  /\ \E pe \in still :
       LET pdf == Pdfs[pdf_files[pdf_i]]
       IN  /\ ~pdf.opens \/ pe \notin DOMAIN pdf.carved
           /\ still' = still \ {pe}
           /\ open_handles' = open_handles + (IF pdf.opens THEN 1 ELSE 0)
  /\ UNCHANGED <<pc, fvars, wvars, xml_paths, path_i, results, origins,
                 skip_r2, pdf_files, pdf_i, unresolved, pages, tvars>>

\* cli/batch.py lines 74-83 with r2_parser.py lines 37-53 and 80-120: pages
\* are found and the bundle is extracted; find_r2_pages_for_pe runs twice
\* and extract_r2_sections_for_pe once, each opening the document
ScanResolve ==
  /\ pc = "scan"
  /\ \E pe \in still :
       LET pdf == Pdfs[pdf_files[pdf_i]]
       IN  /\ pdf.opens /\ pe \in DOMAIN pdf.carved /\ pe \notin pdf.fails
           /\ still' = still \ {pe}
           /\ unresolved' = unresolved \ {pe}
           /\ narr' = (pe :> pdf.carved[pe]) @@ narr
           /\ r2_lookup' = (pe :> R2Return(pdf.carved[pe])) @@ r2_lookup
           /\ open_handles' = open_handles + 3
  /\ UNCHANGED <<pc, r3_rows, use_r1d_description, fuse_i, enriched, wvars,
                 xml_paths, path_i, results, origins, skip_r2, pdf_files, pdf_i,
                 pages, tvars>>

\* cli/batch.py lines 81-85: pages are found and extract_r2_sections_for_pe
\* raises, after its own find_r2_pages_for_pe or after opening the document;
\* the exception is swallowed and the PE stays unresolved
ScanExtractFails ==
  /\ pc = "scan"
  /\ \E pe \in still, opened \in 2..3 :
       LET pdf == Pdfs[pdf_files[pdf_i]]
       IN  /\ pdf.opens /\ pe \in DOMAIN pdf.carved /\ pe \in pdf.fails
           /\ still' = still \ {pe}
           /\ open_handles' = open_handles + opened
  /\ UNCHANGED <<pc, fvars, wvars, xml_paths, path_i, results, origins,
                 skip_r2, pdf_files, pdf_i, unresolved, pages, tvars>>

\* mutant: every PE of the rows is tried on the next PDF again
ScanNextPdfRescanningAll ==
  /\ pc = "scan"
  /\ still = {}
  /\ IF unresolved = {} \/ pdf_i = Len(pdf_files)
     THEN pc' = "fuse" /\ UNCHANGED <<pdf_i, still>>
     ELSE pc' = "scan" /\ pdf_i' = pdf_i + 1 /\ still' = UniquePEs(r3_rows)
  /\ UNCHANGED <<fvars, wvars, pvars, skip_r2, pdf_files, unresolved, pages, tvars>>

\* cli/batch.py lines 72-73, 86-87: the inner loop is done; stop when
\* nothing is unresolved or no PDF is left, else take the next PDF
ScanNextPdf ==
  /\ pc = "scan"
  /\ still = {}
  /\ IF unresolved = {} \/ pdf_i = Len(pdf_files)
     THEN pc' = "fuse" /\ UNCHANGED <<pdf_i, still>>
     ELSE pc' = "scan" /\ pdf_i' = pdf_i + 1 /\ still' = unresolved
  /\ UNCHANGED <<fvars, wvars, pvars, skip_r2, pdf_files, unresolved, pages, tvars>>

\* the garbage collector finalizes the unreferenced workbooks and documents;
\* nothing in the program says when
Finalize ==
  /\ open_handles > 0
  /\ open_handles' = 0
  /\ UNCHANGED <<pc, fvars, wvars, xml_paths, path_i, results, origins, bvars>>

Init ==
  /\ pc = "parse"
  /\ xml_paths \in DistinctSeqsUpTo(FileIds, MaxFiles)
  /\ path_i = 0
  /\ results = <<>>
  /\ origins = <<>>
  /\ open_handles = 0
  /\ skip_r2 \in BOOLEAN
  /\ pdf_files \in PdfLists
  /\ pdf_i = 0
  /\ still = {}
  /\ unresolved = {}
  /\ pages = <<>>
  /\ TagIdle
  /\ r3_rows = <<>>
  /\ narr = EmptyMap
  /\ r2_lookup = EmptyMap
  /\ use_r1d_description \in BOOLEAN
  /\ fuse_i = 0
  /\ enriched = <<>>
  /\ WalkIdle

Next ==
  \/ ParseFileStep
  \/ ParseReturn
  \/ ScanNoPages
  \/ ScanResolve
  \/ ScanExtractFails
  \/ ScanNextPdf
  \/ FuseStep
  \/ FuseReturn
  \/ Finalize

Spec == Init /\ [][Next]_vars

(***************************************************************************)
(* The cost cells on their own: the generic reader and the XML reader on   *)
(* rows and cost lines whose FY cells range over texts and numbers         *)
(***************************************************************************)
MaxCellRows == 2

\* the header of a generic worksheet with the three FY columns
CostHeaderRow ==
  <<<<"P", "r", "o", "g", "r", "a", "m", " ", "E", "l", "e", "m", "e", "n", "t", " ", "N", "u", "m", "b", "e", "r">>, <<"P", "r", "o", "j", "e", "c", "t", " ", "N", "u", "m", "b", "e", "r">>, <<"C", "o", "s", "t", " ", "C", "a", "t", "e", "g", "o", "r", "y">>,
    <<"F", "Y", "2", "0", "2", "3">>, <<"F", "Y", "2", "0", "2", "4">>, <<"F", "Y", "2", "0", "2", "5", " ", "B", "a", "s", "e">>>>

\* the texts an FY cell or attribute can hold
CostTexts ==
  {sEmpty, sBlank, sZero, <<" ", "0", " ">>, <<"0", ".", "0">>, <<"-", "0">>, <<"+", "0">>, sNotANumber, <<"a", "b", "c">>,
   <<"1", ".", "0", ".", "0">>, <<"-">>, <<".">>, <<",">>, <<"1", " ", "2">>, sTwelve, <<" ", "1", "2", " ">>, sFifteenHundred, <<"-", "3">>}

\* the values an FY cell of a worksheet can hold
CostCells == CostTexts \cup {None, Num(0), Num(5), Num(-2)}

\* the three FY cells of a row, one of them ranging over the values
CostTriples(cells) ==
  {<<c, None, sZero>> : c \in cells} \cup {<<sTwelve, c, sNotANumber>> : c \in cells}

\* xml_r3_parser.py lines 230-258: the generic reader reads one data row
GenericRowStep ==
  /\ pc = "cells"
  /\ rows_read < MaxCellRows
  /\ \E t \in CostTriples(CostCells) :
       /\ row_vals' = <<sB2, sProj9, sTitleTest>> \o t
       /\ results' = results \o
            [k \in 1..Len(GenericKeep(<<>>, GenericRecord(hdr_map, row_vals'), 1, 1)) |->
               GenericKeep(<<>>, GenericRecord(hdr_map, row_vals'), 1, 1)[k].rec]
  /\ rows_read' = rows_read + 1
  /\ UNCHANGED <<pc, fvars, hdr_map, walk, last_marker, svars, xml_paths,
                 path_i, origins, open_handles, bvars>>

\* xml_r3_parser.py lines 55-71: the XML reader reads one cost line, whose
\* FY attributes are in row_vals
XmlLineStep ==
  /\ pc = "cells"
  /\ rows_read < MaxCellRows
  /\ \E t \in CostTriples(CostTexts \cup {None}) :
       /\ row_vals' = <<sB2, sProj9, sTitleTest>> \o t
       /\ results' = Append(results,
            XmlRecord([number |-> sB2, name |-> None],
                      [number |-> sProj9, name |-> None],
                      [name |-> sTitleTest, FY2023 |-> t[1], FY2024 |-> t[2],
                       FY2025Base |-> t[3]]))
  /\ rows_read' = rows_read + 1
  /\ UNCHANGED <<pc, fvars, hdr_map, walk, last_marker, svars, xml_paths,
                 path_i, origins, open_handles, bvars>>

InitCells ==
  /\ pc = "cells"
  /\ hdr_map = HeaderMap(CostHeaderRow)
  /\ walk = WalkStart
  /\ row_vals = <<>>
  /\ rows_read = 0
  /\ last_marker = "none"
  /\ SheetIdle
  /\ FuseIdle
  /\ BatchIdle

NextCells == GenericRowStep \/ XmlLineStep

SpecCells == InitCells /\ [][NextCells]_vars

(***************************************************************************)
(* etl/r2_parser.py: section carving and the new-start flag                *)
(*                                                                         *)
(* A page text is a sequence of tokens: a word, a label, a separator or    *)
(* one white-space character.  The regular expressions of the module are   *)
(* matched token by token: \s is a white-space token, \b holds at every    *)
(* token border, and  ^  holds at the first position of the searched text  *)
(* only, since no pattern is compiled with re.MULTILINE.                   *)
(***************************************************************************)
MaxPages == 4

tMission == "A. Mission Description and Budget Item Justification"

tAccomplishments == "C. Accomplishments/Planned Programs"

tAcquisition == "D. Acquisition Strategy"

tNewStart == "New Start"

tTitle == "Exhibit R-2, PE A1"

WhiteTokens == {" ", "\n"}

\* the tokens  [A-Z]\.  matches under re.IGNORECASE; \s must follow
LetterDotTokens == {"E.", "e."}

\* the tokens that themselves begin with a letter, a period and a blank
LetterDotBlankTokens == {tMission, tAccomplishments, tAcquisition}

\* m.group(1).lower() of an answer token
LowerToken(tok) ==
  CASE tok \in {"Yes", "YES", "yes"} -> "yes"
    [] tok \in {"No", "NO", "no"} -> "no"
    [] OTHER -> tok

RECURSIVE JoinPages(_)
\* line 95: "\n".join(collected_text)
JoinPages(ps) ==
  IF ps = <<>> THEN <<>>
  ELSE IF Len(ps) = 1 THEN ps[1]
  ELSE ps[1] \o <<"\n">> \o JoinPages(Tail(ps))

RECURSIVE CollapseWhite(_)
\* re.sub(r"\s+", " ", t)
CollapseWhite(t) ==
  IF t = <<>> THEN <<>>
  ELSE IF t[1] \in WhiteTokens
       THEN IF Len(t) > 1 /\ t[2] \in WhiteTokens THEN CollapseWhite(Tail(t))
            ELSE <<" ">> \o CollapseWhite(Tail(t))
  ELSE <<t[1]>> \o CollapseWhite(Tail(t))

\* str.strip() of a text whose white space is collapsed
StripEnds(t) ==
  SubSeq(t, IF t # <<>> /\ t[1] = " " THEN 2 ELSE 1,
            IF t # <<>> /\ t[Len(t)] = " " THEN Len(t) - 1 ELSE Len(t))

\* lines 28-29: _normalize_text
NormalizeText(t) == StripEnds(CollapseWhite(t))

\* the first token after position i that is no white space, 0 when there
\* is none
NextBlack(t, i) == FirstOrNone({j \in (i + 1)..Len(t) : t[j] \notin WhiteTokens})

\* the first token of t that is no white space
FirstBlack(t) == NextBlack(t, 0)

\* [:\-]?\s*  : past the separator at j, if there is one
SkipSeparator(t, j) ==
  IF j # 0 /\ t[j] \in {":", "-"} THEN NextBlack(t, j) ELSE j

\* does  ^\s*[A-Z]\.\s  match the text whose first non-white token is at j
LetterDotAt(t, j) ==
  /\ j # 0
  /\ \/ t[j] \in LetterDotBlankTokens
     \/ t[j] \in LetterDotTokens /\ j < Len(t) /\ t[j + 1] \in WhiteTokens

\* re.finditer(r"^\s*[A-Z]\.\s", rest, re.IGNORECASE): the offsets of the
\* matches, of which there is at most the one at offset 0
GenericMatches(rest) == IF LetterDotAt(rest, FirstBlack(rest)) THEN {0} ELSE {}

\* re.finditer of the section patterns: the offsets of the matches
AnchorMatches(rest, anchors) == {j - 1 : j \in {k \in 1..Len(rest) : rest[k] \in anchors}}

\* lines 62-68: the text after the anchor, cut at the nearest end marker
CutAtNearest(rest, ends) ==
  IF ends = {} THEN NormalizeText(rest)
  ELSE NormalizeText(SubSeq(rest, 1, SetMin(ends)))

\* lines 60-62: the anchor ends at token start_idx
SectionAfter(text, start_idx, end_anchors) ==
  CutAtNearest(SubSeq(text, start_idx + 1, Len(text)),
               AnchorMatches(SubSeq(text, start_idx + 1, Len(text)), end_anchors)
                 \cup GenericMatches(SubSeq(text, start_idx + 1, Len(text))))

\* lines 57-60: re.search of the anchor has found it at start, or nowhere
SectionFrom(text, start, end_anchors) ==
  IF start = 0 THEN None ELSE SectionAfter(text, start, end_anchors)

\* lines 56-68: _extract_section
ExtractSection(text, anchor, end_anchors) ==
  SectionFrom(text, FirstOrNone({i \in 1..Len(text) : text[i] = anchor}), end_anchors)

\* the index of the token after the label at i, white space and at most
\* one separator skipped; 0 when the text ends first
AnswerIndex(text, i) == SkipSeparator(text, NextBlack(text, i))

\* the places where  New\s*Start\s*[:\-]?\s*(Yes|No)\b  matches
NewStartMatches(text) ==
  {i \in 1..Len(text) :
     /\ text[i] = tNewStart
     /\ AnswerIndex(text, i) # 0
     /\ LowerToken(text[AnswerIndex(text, i)]) \in {"yes", "no"}}

\* mutant: every match counts as "Yes"
FlagAtAnyAnswer(text, i) == IF i = 0 THEN NoneVal ELSE Some(TRUE)

\* the answer of the match at i, 0 standing for no match
FlagAt(text, i) ==
  IF i = 0 THEN NoneVal ELSE Some(LowerToken(text[AnswerIndex(text, i)]) = "yes")

\* lines 71-77: _detect_new_start_flag
DetectNewStartFlag(text) == FlagAt(text, FirstOrNone(NewStartMatches(text)))

\* lines 96-113: the three sections and the flag of the concatenated text
Carve(text) ==
  [mission         |-> ExtractSection(text, tMission,
                                      {tAccomplishments, tAcquisition}),
   accomplishments |-> ExtractSection(text, tAccomplishments, {tAcquisition}),
   acquisition     |-> ExtractSection(text, tAcquisition, {}),
   flag            |-> DetectNewStartFlag(text)]

(***************************************************************************)
(* Extraction on its own: the pages matched for one PE range over the      *)
(* lists of up to MaxPages page texts                                      *)
(***************************************************************************)
\* the texts of a page; each begins with the exhibit title line
PageTexts ==
  { <<tTitle, "\n", tMission, "\n", "alpha">>,
    <<tTitle, "\n", tAccomplishments, " ", "beta", " ", "\n">>,
    <<tTitle, "\n", tAcquisition, "\n", "gamma">>,
    <<tTitle, "\n", "E.", " ", "Other">>,
    <<tTitle, "\n", tNewStart, ":", " ", "Yes">>,
    <<tTitle, "\n", tNewStart, " ", "-", "\n", "NO", " ", "delta">>,
    <<tTitle, "\n", tNewStart, "?", " ", "Yes">>,
    <<tTitle, "\n", tAcquisition, "\n", " ", "e.", " ", "alpha", " ", " ", "E.">>,
    <<tTitle, " ", " ", "delta">> }

\* r2_parser.py lines 80-120: extract_r2_sections_for_pe on the matched
\* pages; the caller files the bundle under the PE
ExtractStep ==
  /\ pc = "extract"
  /\ narr' = (sA1 :> Carve(JoinPages(pages)))
  /\ r2_lookup' = (sA1 :> R2Return(Carve(JoinPages(pages))))
  /\ pc' = "extracted"
  /\ UNCHANGED <<r3_rows, use_r1d_description, fuse_i, enriched, wvars, pvars,
                 bvars>>

InitExtract ==
  /\ pc = "extract"
  /\ pages \in SeqsUpTo(PageTexts, MaxPages)
  /\ r3_rows = <<>>
  /\ narr = EmptyMap
  /\ r2_lookup = EmptyMap
  /\ use_r1d_description = FALSE
  /\ fuse_i = 0
  /\ enriched = <<>>
  /\ WalkIdle
  /\ xml_paths = <<>>
  /\ path_i = 0
  /\ results = <<>>
  /\ origins = <<>>
  /\ open_handles = 0
  /\ skip_r2 = FALSE
  /\ pdf_files = <<>>
  /\ pdf_i = 0
  /\ still = {}
  /\ unresolved = {}
  /\ TagIdle

NextExtract == ExtractStep

SpecExtract == InitExtract /\ [][NextExtract]_vars

(***************************************************************************)
(* Header detection on its own: _parse_xlsx_file on one worksheet, whose   *)
(* rows range over lead rows followed by header and data rows              *)
(***************************************************************************)
MaxLeadRows == 51

MaxBodyRows == 2

MaxDetections == 2

\* a title line with one word of the signatures
TitleRow == <<<<"P", "r", "o", "j", "e", "c", "t", " ", "s", "u", "m", "m", "a", "r", "y">>, None, None, None>>

\* the three words of the first signature, each in a cell of its own
SpreadHeaderRow == <<<<"P", "r", "o", "g", "r", "a", "m">>, <<"E", "l", "e", "m", "e", "n", "t">>, <<"P", "r", "o", "j", "e", "c", "t">>, <<"F", "Y", "2", "0", "2", "3">>>>

\* a header row with a cell that names two fields
MergedHeaderRow ==
  <<<<"P", "r", "o", "g", "r", "a", "m", " ", "E", "l", "e", "m", "e", "n", "t", " ", "N", "u", "m", "b", "e", "r">>, <<"P", "r", "o", "j", "e", "c", "t", " ", "N", "u", "m", "b", "e", "r", " ", "/", " ", "P", "r", "o", "j", "e", "c", "t", " ", "N", "a", "m", "e">>, <<"C", "o", "s", "t", " ", "C", "a", "t", "e", "g", "o", "r", "y">>, <<"F", "Y", "2", "0", "2", "3">>>>

\* a header row with two columns for one field
RepeatedHeaderRow ==
  <<<<"P", "r", "o", "g", "r", "a", "m", " ", "E", "l", "e", "m", "e", "n", "t", " ", "N", "u", "m", "b", "e", "r">>, <<"P", "r", "o", "j", "e", "c", "t", " ", "N", "u", "m", "b", "e", "r">>, <<"F", "Y", "2", "0", "2", "3">>, <<"F", "Y", "2", "0", "2", "3", " ", "R", "e", "v", "i", "s", "e", "d">>>>

\* a header row _find_header_row accepts and _header_map maps nothing of
UnmappedHeaderRow == <<<<"P", "r", "o", "g", "r", "a", "m", " ", "E", "l", "e", "m", "e", "n", "t", "s">>, <<"P", "r", "o", "j", "e", "c", "t", "s">>>>

HeaderKinds ==
  {GenericHeaderRow, R1dHeaderRow, SpreadHeaderRow, MergedHeaderRow,
   RepeatedHeaderRow, UnmappedHeaderRow}

\* the rows from the first header candidate on
BodyRows ==
  HeaderKinds \cup
  { <<sB2, <<"0", "0", "2">>, <<"L", "a", "b", "o", "r">>, Num(4)>>,
    SheetRow(sProjectMixed, None, sProj001, sTitleFlt, sDesc, Num(10), sTwelve, sFifteenHundred) }

\* how many rows come before them
LeadCounts == {0} \cup ((MaxSearchRows - 1)..MaxLeadRows)

LeadRows(n, row) == [i \in 1..n |-> row]

MaxGapRows == 5

\* the data rows below a run of blank rows
GapTailRows ==
  { <<sB2, <<"0", "0", "3">>, <<"T", "r", "a", "v", "e", "l">>, sNotANumber>>,
    <<None, None, <<"O", "r", "p", "h", "a", "n">>, Num(1)>>,
    SheetRow(sCA, None, None, sTitleTest, sDesc, sZero, None, Num(3)) }

\* a header row, a data row or none, a run of blank rows and a last data row
GapSheets ==
  {<<hdr>> \o first \o LeadRows(g, BlankRow4) \o <<last>> :
     hdr \in HeaderKinds, first \in SeqsUpTo(BodyRows \ HeaderKinds, 1),
     g \in 0..MaxGapRows, last \in GapTailRows}

Worksheets ==
  {LeadRows(n, row) \o body :
     n \in LeadCounts, row \in {BlankRow4, TitleRow},
     body \in SeqsUpTo(BodyRows, MaxBodyRows)}
  \cup GapSheets

\* the records among tagged records
SheetRecords(r) == [k \in 1..Len(r.tagged) |-> r.tagged[k].rec]

\* what _find_header_row returned to _parse_xlsx_file
HeaderRowFound == header_rows[Len(header_rows)]

\* lines 75-89 and 214: header_row = _find_header_row(sheet)
FindHeaderStep ==
  /\ pc = "sheet"
  /\ Len(header_rows) < MaxDetections
  /\ header_rows' = Append(header_rows, FindHeaderRow(sheet_rows))
  /\ UNCHANGED <<pc, sheet_rows, hdr_map, walk, row_vals, rows_read,
                 last_marker, results, xml_paths, path_i, origins,
                 open_handles, fvars, bvars>>

\* lines 215-216: no header row, the worksheet is passed over
SkipSheetStep ==
  /\ pc = "sheet"
  /\ header_rows # <<>>
  /\ HeaderRowFound = 0
  /\ pc' = "sheet done"
  /\ UNCHANGED <<fvars, wvars, pvars, bvars>>

\* lines 218-224: the header cells are read again and mapped; an empty map
\* passes the worksheet over
HeaderMapStep ==
  /\ pc = "sheet"
  /\ header_rows # <<>>
  /\ HeaderRowFound # 0
  /\ hdr_map' = HeaderMap(sheet_rows[HeaderRowFound])
  /\ pc' = IF DOMAIN hdr_map' = {} THEN "sheet done" ELSE "mapped"
  /\ UNCHANGED <<svars, walk, row_vals, rows_read, last_marker, fvars, pvars,
                 bvars>>

\* lines 225-258: the rows below the header row, of which reader stands for
\* the branch taken at line 226
ReadRows(reader) ==
  /\ pc = "mapped"
  /\ results' = SheetRecords(SheetBelowHeader([rows |-> sheet_rows, fault_at |-> 0],
                                              1, HeaderRowFound, hdr_map))
  /\ pc' = reader
  /\ UNCHANGED <<xml_paths, path_i, origins, open_handles, fvars, wvars, bvars>>

\* lines 226-228: the worksheet goes to _parse_r1d_sheet
WalkSheetStep == IsR1dMap(hdr_map) /\ ReadRows("sheet walked")

\* lines 229-258: the worksheet is read as a generic sheet
ScanSheetStep == ~IsR1dMap(hdr_map) /\ ReadRows("sheet scanned")

InitSheet ==
  /\ pc = "sheet"
  /\ sheet_rows \in Worksheets
  /\ header_rows = <<>>
  /\ hdr_map = EmptyMap
  /\ walk = WalkStart
  /\ row_vals = <<>>
  /\ rows_read = 0
  /\ last_marker = "none"
  /\ FuseIdle
  /\ BatchIdle

NextSheet ==
  \/ FindHeaderStep
  \/ SkipSheetStep
  \/ HeaderMapStep
  \/ WalkSheetStep
  \/ ScanSheetStep

SpecSheet == InitSheet /\ [][NextSheet]_vars

(***************************************************************************)
(* analysis/llm_tagging.py: tag_relevance_batch, the threaded path         *)
(***************************************************************************)
MaxCorpusLength == 8000

\* float("nan"), what pandas makes of an empty CSV field
NaN == <<"#nan">>

\* lines 19-28: _to_text
ToText(val) == IF val = None \/ val = NaN THEN <<>> ELSE PyStr(val)

\* text[:n]
Take(s, n) == SubSeq(s, 1, IF Len(s) < n THEN Len(s) ELSE n)

sTruncated == <<".", ".", ".", " ", "[", "t", "r", "u", "n", "c", "a", "t", "e", "d", "]">>

\* lines 39-44: one part of the corpus, "" when it is left out
CorpusPart(val, max_length) ==
  IF Len(Strip(ToText(val))) > max_length \div 3
  THEN Take(Strip(ToText(val)), max_length \div 3) \o sTruncated
  ELSE Strip(ToText(val))

RECURSIVE JoinParagraphs(_)
\* "\n\n".join(parts)
JoinParagraphs(parts) ==
  IF parts = <<>> THEN <<>>
  ELSE IF Len(parts) = 1 THEN parts[1]
  ELSE parts[1] \o <<"\n", "\n">> \o JoinParagraphs(Tail(parts))

\* lines 46-51: the joined parts, cut at max_length
CutCorpus(corpus, max_length) ==
  IF Len(corpus) > max_length THEN Take(corpus, max_length) \o sTruncated
  ELSE corpus

\* lines 31-51: build_corpus
BuildCorpus(row) ==
  CutCorpus(
    JoinParagraphs(
      SelectSeq(<<CorpusPart(row.AccomplishmentsText, MaxCorpusLength),
                  CorpusPart(row.AcquisitionStrategyText, MaxCorpusLength),
                  CorpusPart(row.MissionDescriptionText, MaxCorpusLength)>>,
                LAMBDA t : t # <<>>)),
    MaxCorpusLength)

\* line 62: the keyword (lower-cased, trimmed, non-empty) occurs in c
KeywordHit(c, k) == k # <<>> /\ Contains(c, k)

\* line 65: one of the primary focus phrases occurs in c
PrimaryHit(c, k) ==
  \/ Contains(c, <<"f", "o", "c", "u", "s", " ", "o", "n", " ">> \o k)
  \/ Contains(c, <<"d", "e", "v", "e", "l", "o", "p", "i", "n", "g", " ">> \o k)
  \/ Contains(c, k \o <<" ", "p", "r", "o", "g", "r", "a", "m">>)
  \/ Contains(c, k \o <<" ", "s", "y", "s", "t", "e", "m">>)
  \/ Contains(c, k \o <<" ", "c", "a", "p", "a", "b", "i", "l", "i", "t", "y">>)

\* lines 58-72: the label and rationale for the hits counted
RelevanceOfHits(c, ks) ==
  IF \E k \in ks : KeywordHit(c, k) /\ PrimaryHit(c, k)
  THEN <<"High", "Primary focus phrases matched">>
  ELSE IF \E k \in ks : KeywordHit(c, k)
       THEN <<"Medium", "Keyword mentioned in context">>
  ELSE <<"Low", "No direct keyword match">>

\* lines 54-72: _rule_based_relevance
RuleBasedRelevance(corpus, keywords) ==
  RelevanceOfHits(Lower(corpus),
                  {Strip(Lower(keywords[i])) : i \in 1..Len(keywords)})

\* what client.chat.completions.create and json.loads make of one request:
\* the call raises, the content is no JSON, or it is a JSON object
ReplyError == [kind |-> "error", label |-> "", rationale |-> ""]

ReplyBadJson == [kind |-> "text", label |-> "", rationale |-> ""]

ReplyHigh == [kind |-> "json", label |-> "High", rationale |-> "core deliverable"]

ReplyOddLabel == [kind |-> "json", label |-> "Critical", rationale |-> "core deliverable"]

LlmReplies == {ReplyError, ReplyBadJson, ReplyHigh, ReplyOddLabel}

\* the request was never sent
NoReply == [kind |-> "none", label |-> "", rationale |-> ""]

\* lines 75-134: _openai_tag_one; it raises without the package or the key
\* (82-86) and turns every exception of the request into a "Low" tag
\* (131-134)
OpenaiTagOne(has_package, has_key, reply) ==
  IF ~has_package \/ ~has_key THEN [raised |-> TRUE, tag |-> <<>>]
  ELSE IF reply.kind = "error"
       THEN [raised |-> FALSE, tag |-> <<"Low", "OpenAI error">>]
  ELSE IF reply.kind = "text"
       THEN [raised |-> FALSE, tag |-> <<"Low", "JSON parse error">>]
  ELSE IF reply.label \notin {"High", "Medium", "Low"}
       THEN [raised |-> FALSE, tag |-> <<"Low", reply.rationale>>]
  ELSE [raised |-> FALSE, tag |-> <<reply.label, reply.rationale>>]

\* lines 181-184: the tag of _openai_tag_one, or the rule-based one when it
\* raised
TagOrFallback(r, corpus, keywords) ==
  IF r.raised THEN RuleBasedRelevance(corpus, keywords) ELSE r.tag

\* lines 178-185: task, which returns the index with the tag
Task(i, row, keywords, has_package, has_key, reply) ==
  <<i>> \o TagOrFallback(OpenaiTagOne(has_package, has_key, reply),
                         BuildCorpus(row), keywords)

(***************************************************************************)
(* Tagging on its own: the thread pool over every row list within bounds,  *)
(* every order of completion and every reply of the LLM                    *)
(***************************************************************************)
MaxTagRows == 3

MaxWorkers == 2

TagKeywords == <<<<" ", "R", "a", "d", "a", "r", " ">>, <<>>>>

\* a row the rules tag High and a row they tag Medium
TagRowSet ==
  { [AccomplishmentsText |-> <<" ", "R", "a", "d", "a", "r", " ", "s", "y", "s", "t", "e", "m", " ">>, AcquisitionStrategyText |-> None,
     MissionDescriptionText |-> NaN],
    [AccomplishmentsText |-> NaN, AcquisitionStrategyText |-> <<"b", "o", "a", "t", "s">>,
     MissionDescriptionText |-> <<"U", "s", "e", "s", " ", "R", "A", "D", "A", "R">>] }

\* lines 168-174: without the key every row gets its rule-based tag
TagWithoutKey ==
  /\ pc = "tag"
  /\ ~api_key
  /\ tags' = [i \in 1..Len(tag_rows) |->
                RuleBasedRelevance(BuildCorpus(tag_rows[i]), TagKeywords)]
  /\ pc' = "tagged"
  /\ UNCHANGED <<tag_rows, api_key, installed, concurrency, futures, out,
                 skip_r2, pdf_files, pdf_i, still, unresolved, pages,
                 fvars, wvars, pvars>>

\* lines 187-190: the slots are laid out and one task per row is submitted
SubmitTasks ==
  /\ pc = "tag"
  /\ api_key
  /\ out' = [i \in 1..Len(tag_rows) |-> None]
  /\ futures' = [i \in 1..Len(tag_rows) |->
                   [state |-> "pending", reply |-> NoReply, result |-> <<>>]]
  /\ pc' = "pool"
  /\ UNCHANGED <<tag_rows, api_key, installed, concurrency, tags,
                 skip_r2, pdf_files, pdf_i, still, unresolved, pages,
                 fvars, wvars, pvars>>

\* the tagging variables a step of the pool leaves alone
PoolFrame ==
  UNCHANGED <<pc, tag_rows, api_key, installed, concurrency, tags,
              skip_r2, pdf_files, pdf_i, still, unresolved, pages,
              fvars, wvars, pvars>>

\* line 189: a free worker of the pool takes the oldest pending task
TaskStart(i) ==
  /\ pc = "pool"
  /\ futures[i].state = "pending"
  /\ \A j \in 1..(i - 1) : futures[j].state # "pending"
  /\ Cardinality({j \in 1..Len(futures) : futures[j].state = "running"})
       < concurrency
  /\ futures' = [futures EXCEPT ![i].state = "running"]
  /\ UNCHANGED out
  /\ PoolFrame

\* lines 178-185: a running task gets the reply of the LLM, if the request
\* is sent at all, and returns
TaskFinish(i) ==
  /\ pc = "pool"
  /\ futures[i].state = "running"
  /\ \E reply \in (IF installed THEN LlmReplies ELSE {NoReply}) :
       futures' = [futures EXCEPT
                     ![i] = [state  |-> "done",
                             reply  |-> reply,
                             result |-> Task(i, tag_rows[i], TagKeywords,
                                             installed, api_key, reply)]]
  /\ UNCHANGED out
  /\ PoolFrame

\* lines 191-193: as_completed yields a finished future, whose result goes
\* into the slot of its index
CollectResult(i) ==
  /\ pc = "pool"
  /\ futures[i].state = "done"
  /\ out' = [out EXCEPT ![futures[i].result[1]] =
                          <<futures[i].result[2], futures[i].result[3]>>]
  /\ futures' = [futures EXCEPT ![i].state = "collected"]
  /\ PoolFrame

TaskStartStep == \E i \in 1..Len(futures) : TaskStart(i)

TaskFinishStep == \E i \in 1..Len(futures) : TaskFinish(i)

CollectResultStep == \E i \in 1..Len(futures) : CollectResult(i)

\* line 195: every future has been yielded; an empty slot becomes
\* ("Low", "Missing result")
TagReturn ==
  /\ pc = "pool"
  /\ \A i \in 1..Len(futures) : futures[i].state = "collected"
  /\ tags' = [i \in 1..Len(out) |->
                IF out[i] = None THEN <<"Low", "Missing result">> ELSE out[i]]
  /\ pc' = "tagged"
  /\ UNCHANGED <<tag_rows, api_key, installed, concurrency, futures, out,
                 skip_r2, pdf_files, pdf_i, still, unresolved, pages,
                 fvars, wvars, pvars>>

InitTag ==
  /\ pc = "tag"
  /\ tag_rows \in SeqsUpTo(TagRowSet, MaxTagRows)
  /\ api_key \in BOOLEAN
  /\ installed \in BOOLEAN
  /\ concurrency \in 2..MaxWorkers
  /\ futures = <<>>
  /\ out = <<>>
  /\ tags = <<>>
  /\ xml_paths = <<>>
  /\ path_i = 0
  /\ results = <<>>
  /\ origins = <<>>
  /\ open_handles = 0
  /\ skip_r2 = TRUE
  /\ pdf_files = <<>>
  /\ pdf_i = 0
  /\ still = {}
  /\ unresolved = {}
  /\ pages = <<>>
  /\ FuseIdle
  /\ WalkIdle

NextTag ==
  \/ TagWithoutKey
  \/ SubmitTasks
  \/ TaskStartStep
  \/ TaskFinishStep
  \/ CollectResultStep
  \/ TagReturn

SpecTag == InitTag /\ [][NextTag]_vars

(***************************************************************************)
(* Claims about fusion                                                     *)
(***************************************************************************)
\* the key fusion looks a row up under: its PENumber, trimmed
RowKey(row) == Strip(Or(row.PENumber, <<>>))

HasBundle(row) == RowKey(row) \in DOMAIN r2_lookup

\* the bundle looked up for a row (all null when there is none)
BundleOf(row) == LookupGet(r2_lookup, RowKey(row))

\* the row's R1D_Description, trimmed ("" when absent)
DescOf(row) == Strip(Or(row.R1D_Description, <<>>))

\* enriched[i] carries the identifiers and costs of r3_rows[i]
BuiltFrom(e, row) ==
  /\ e.PENumber = row.PENumber
  /\ e.PEName = row.PEName
  /\ e.ProjectNumber = row.ProjectNumber
  /\ e.ProjectName = row.ProjectName
  /\ e.CostCategory = row.CostCategory
  /\ e.FY2023_Cost = row.FY2023_Cost
  /\ e.FY2024_Cost = row.FY2024_Cost
  /\ e.FY2025_Base_Cost = row.FY2025_Base_Cost

AllNarrativeNull(e) ==
  /\ e.AccomplishmentsText = None
  /\ e.MissionDescriptionText = None
  /\ e.AcquisitionStrategyText = None
  /\ e.IsNewStart = NoneVal

\* C1 as stated: when fusion returns there is one record per row, the i-th
\* built from the i-th row, and a row without a bundle has all four
\* narrative fields null, whatever the fallback switch.
C1_OnePerRowNullWhenUnmatched ==
  pc = "done" =>
    /\ Len(enriched) = Len(r3_rows)
    /\ \A i \in 1..Len(enriched) :
         /\ BuiltFrom(enriched[i], r3_rows[i])
         /\ ~HasBundle(r3_rows[i]) => AllNarrativeNull(enriched[i])

\* C1 amended: one record per row at every point of the loop and on return,
\* the i-th built from the i-th row; a row without a bundle has null
\* AcquisitionStrategyText and IsNewStart, and null AccomplishmentsText and
\* MissionDescriptionText unless the fallback is enabled and the row has a
\* non-blank R1D_Description, in which case both are that description.
C1_OnePerRow ==
  /\ Len(enriched) = fuse_i
  /\ fuse_i <= Len(r3_rows)
  /\ pc = "done" => Len(enriched) = Len(r3_rows)
  /\ \A i \in 1..Len(enriched) :
       /\ BuiltFrom(enriched[i], r3_rows[i])
       /\ ~HasBundle(r3_rows[i]) =>
            /\ enriched[i].AcquisitionStrategyText = None
            /\ enriched[i].IsNewStart = NoneVal
            /\ IF use_r1d_description /\ DescOf(r3_rows[i]) # <<>>
               THEN /\ enriched[i].AccomplishmentsText = DescOf(r3_rows[i])
                    /\ enriched[i].MissionDescriptionText = DescOf(r3_rows[i])
               ELSE /\ enriched[i].AccomplishmentsText = None
                    /\ enriched[i].MissionDescriptionText = None

C1_Witness ==
  /\ pc = "done"
  /\ Len(enriched) = MaxFuseRows
  /\ use_r1d_description
  /\ \E i \in 1..Len(r3_rows) :
       ~HasBundle(r3_rows[i]) /\ DescOf(r3_rows[i]) # <<>>
  /\ \E i \in 1..Len(r3_rows) : HasBundle(r3_rows[i])

\* C5: with the fallback disabled the three narrative texts of every record
\* are exactly the bundle's values, null staying null, even when the row
\* carries a non-empty R1D_Description.
C5_NoFallbackKeepsBundle ==
  ~use_r1d_description =>
    \A i \in 1..Len(enriched) :
      /\ enriched[i].AccomplishmentsText = BundleOf(r3_rows[i]).accomplishments
      /\ enriched[i].MissionDescriptionText = BundleOf(r3_rows[i]).mission
      /\ enriched[i].AcquisitionStrategyText = BundleOf(r3_rows[i]).acquisition

C5_Witness ==
  /\ ~use_r1d_description
  /\ \E i \in 1..Len(enriched) :
       /\ DescOf(r3_rows[i]) # <<>>
       /\ HasBundle(r3_rows[i])
       /\ BundleOf(r3_rows[i]).accomplishments = None
       /\ BundleOf(r3_rows[i]).mission = <<>>

\* C6: with the fallback enabled a non-empty bundle mission (accomplishments)
\* is the record's MissionDescriptionText (AccomplishmentsText) whatever the
\* row's description, and AcquisitionStrategyText is always the bundle's.
C6_FallbackNeverOverwrites ==
  use_r1d_description =>
    \A i \in 1..Len(enriched) :
      /\ Truthy(BundleOf(r3_rows[i]).mission) =>
           enriched[i].MissionDescriptionText = BundleOf(r3_rows[i]).mission
      /\ Truthy(BundleOf(r3_rows[i]).accomplishments) =>
           enriched[i].AccomplishmentsText = BundleOf(r3_rows[i]).accomplishments
      /\ enriched[i].AcquisitionStrategyText = BundleOf(r3_rows[i]).acquisition

C6_Witness ==
  /\ use_r1d_description
  /\ \E i \in 1..Len(enriched) :
       /\ DescOf(r3_rows[i]) # <<>>
       /\ Truthy(BundleOf(r3_rows[i]).mission)
       /\ Truthy(BundleOf(r3_rows[i]).accomplishments)
       /\ BundleOf(r3_rows[i]).acquisition = None

\* C7: with the fallback enabled and a description that is non-empty after
\* trimming, a null or empty bundle accomplishments becomes that description
\* and, independently, a null or empty bundle mission becomes it too; with
\* an absent or blank description both fields are the bundle's values.
C7_FallbackSubstitutes ==
  use_r1d_description =>
    \A i \in 1..Len(enriched) :
      LET b == BundleOf(r3_rows[i])
          d == DescOf(r3_rows[i])
      IN  IF d # <<>>
          THEN /\ ~Truthy(b.accomplishments) =>
                    enriched[i].AccomplishmentsText = d
               /\ ~Truthy(b.mission) => enriched[i].MissionDescriptionText = d
          ELSE /\ enriched[i].AccomplishmentsText = b.accomplishments
               /\ enriched[i].MissionDescriptionText = b.mission

C7_Witness ==
  /\ use_r1d_description
  /\ \E i \in 1..Len(enriched) :
       /\ DescOf(r3_rows[i]) = sDescTrimmed
       /\ BundleOf(r3_rows[i]).accomplishments = <<>>
       /\ BundleOf(r3_rows[i]).mission = sMission
       /\ enriched[i].AccomplishmentsText = sDescTrimmed
  /\ \E i \in 1..Len(enriched) :
       /\ r3_rows[i].R1D_Description = sBlank
       /\ BundleOf(r3_rows[i]).accomplishments = <<>>

\* the new-start flag the extractor detected for the row's PE
FlagOf(row) == IF RowKey(row) \in DOMAIN narr THEN narr[RowKey(row)].flag ELSE NoneVal

\* C8: every record's IsNewStart is the new-start flag of the bundle found
\* under the row's trimmed PENumber: true, false or null as detected, and
\* null for a row without a bundle.
C8_IsNewStartPassesThrough ==
  \A i \in 1..Len(enriched) : enriched[i].IsNewStart = FlagOf(r3_rows[i])

C8_Witness ==
  /\ \E i \in 1..Len(enriched) :
       r3_rows[i].PENumber = sA1Padded /\ enriched[i].IsNewStart = Some(TRUE)
  /\ \E i \in 1..Len(enriched) : ~HasBundle(r3_rows[i])

(***************************************************************************)
(* Claims about the row walker                                             *)
(***************************************************************************)
\* this step read one non-blank row, now in row_vals
ReadRow == rows_read' = rows_read + 1

ContextTypes == {sPE, sPROJECT, sPROJECTS, sPRJ}

\* a non-blank row with a non-empty Type that is no PE or PROJECT row
IsLeaf(rv) ==
  /\ ~IsBlankRow(rv)
  /\ RowType(hdr_map, rv) # <<>>
  /\ RowType(hdr_map, rv) \notin ContextTypes

\* a summary duplicate, by the lower-cased category text
SummaryText(cc) ==
  \/ Lower(cc) = <<"p", "r", "o", "j", "e", "c", "t", " ", "t", "o", "t", "a", "l", "s">>
  \/ /\ Contains(Lower(cc), <<"t", "o", "t", "a", "l", "s">>)
     /\ Contains(Lower(cc), <<"s", "u", "m", " ", "o", "f">>)

\* C9: a leaf row whose category text, lower-cased, is "project totals" or
\* contains both "totals" and "sum of" adds no record to the walker's
\* results, and no record of the results has such a "totals ... sum of"
\* category; in particular none has CostCategory "Sum of Project Totals".
C9_SummaryRowsDropped ==
  /\ [][(ReadRow /\ IsLeaf(row_vals')
           /\ SummaryText(LeafCategory(hdr_map, row_vals')))
        => walk'.results = walk.results]_vars
  /\ [](\A i \in 1..Len(walk.results) :
          /\ walk.results[i].CostCategory # sSumOfProjectTotals
          /\ ~(/\ Contains(Lower(walk.results[i].CostCategory), <<"t", "o", "t", "a", "l", "s">>)
               /\ Contains(Lower(walk.results[i].CostCategory), <<"s", "u", "m", " ", "o", "f">>)))

C9_Witness ==
  /\ hdr_map = FullHeaderMap
  /\ rows_read = MaxWalkRows
  /\ Len(row_vals) = 8
  /\ row_vals[5] = sSumOfProjectTotals
  /\ IsLeaf(row_vals)
  /\ Len(walk.results) = MaxWalkRows - 2
  /\ walk.results[1].CostCategory = sProjectTotals

\* C10 as stated: a PE row sets currentPE number and name to the row's
\* PE-number and title cell values (an absent cell read as empty), resets
\* currentProject and emits nothing.
C10_PERowSetsContextFromCells ==
  [][(ReadRow /\ ~IsBlankRow(row_vals') /\ RowType(hdr_map, row_vals') = sPE)
     => /\ Norm(walk'.current_pe_num) = Norm(Gv(hdr_map, row_vals', "PENumber"))
        /\ Norm(walk'.current_pe_name) = Norm(Gv(hdr_map, row_vals', "Title"))
        /\ walk'.current_proj_num = None
        /\ walk'.current_proj_name = None
        /\ walk'.results = walk.results]_vars

\* C10 amended: a PE row sets currentPE number and name to the row's
\* PE-number and title cell values where the cell is non-empty and keeps the
\* previous value where it is empty or unmapped, resets currentProject
\* number and name, and emits no record; every leaf row read while the
\* latest context row is a PE row, unless it is a summary duplicate, is
\* emitted with empty ProjectNumber and ProjectName.
C10_PERowResetsProject ==
  /\ [][(ReadRow /\ ~IsBlankRow(row_vals') /\ RowType(hdr_map, row_vals') = sPE)
        => /\ walk'.current_pe_num =
                IF Gv(hdr_map, row_vals', "PENumber") \in {None, <<>>}
                THEN walk.current_pe_num
                ELSE Gv(hdr_map, row_vals', "PENumber")
           /\ walk'.current_pe_name =
                IF Gv(hdr_map, row_vals', "Title") \in {None, <<>>}
                THEN walk.current_pe_name
                ELSE Gv(hdr_map, row_vals', "Title")
           /\ walk'.current_proj_num = None
           /\ walk'.current_proj_name = None
           /\ walk'.results = walk.results]_vars
  /\ [][(ReadRow /\ IsLeaf(row_vals') /\ last_marker = "PE"
           /\ ~SummaryText(LeafCategory(hdr_map, row_vals')))
        => /\ Len(walk'.results) = Len(walk.results) + 1
           /\ SubSeq(walk'.results, 1, Len(walk.results)) = walk.results
           /\ walk'.results[Len(walk'.results)].ProjectNumber = <<>>
           /\ walk'.results[Len(walk'.results)].ProjectName = <<>>]_vars

C10_Witness ==
  /\ last_marker = "PE"
  /\ IsLeaf(row_vals)
  /\ Len(walk.results) = 2
  /\ walk.results[1].ProjectNumber = sProj001
  /\ walk.results[1].ProjectName = sTitleFlt
  /\ walk.results[2].ProjectNumber = <<>>
  /\ walk.results[2].ProjectName = <<>>
  /\ walk.results[2].PENumber = sA1

(***************************************************************************)
(* Claims about parse_r3_projects and the batch run                        *)
(***************************************************************************)
\* the place of a record: <<file, sheet or element, row or project, line>>,
\* compared in dictionary order
ComesBefore(a, b) ==
  \E k \in 1..Len(a) : a[k] < b[k] /\ \A m \in 1..(k - 1) : a[m] = b[m]

\* the records file k of the list has contributed
FromFile(k) == {i \in 1..Len(origins) : origins[i][1] = k}

\* C2: the records of parse_r3_projects followed by fuse_r3_with_r2 are in
\* input-file order and, within a file, in worksheet/row (or document)
\* order; the i-th EnrichedRecord is built from the i-th CostLineRecord.
C2_RecordsInInputOrder ==
  /\ Len(origins) = Len(results)
  /\ \A i, j \in 1..Len(origins) : i < j => ComesBefore(origins[i], origins[j])
  /\ pc \in {"scan", "fuse", "done"} => r3_rows = results
  /\ Len(enriched) = fuse_i
  /\ \A i \in 1..Len(enriched) : BuiltFrom(enriched[i], r3_rows[i])

\* two files have both contributed records, one of them several from
\* different rows, and all of them are fused
C2_Witness ==
  /\ pc = "done"
  /\ Len(xml_paths) = 2
  /\ FromFile(1) # {} /\ FromFile(2) # {}
  /\ Cardinality(FromFile(1)) >= 2
  /\ Len(enriched) = Len(origins)

\* C3: parse_r3_projects never raises: a file that cannot be opened or whose
\* parsing fails at any later point contributes no record, and every
\* remaining file of the list is still processed and contributes its records.
C3_ParseNeverRaises ==
  /\ pc # "raised"
  /\ pc # "parse" =>
        \A k \in 1..Len(xml_paths) :
          Cardinality(FromFile(k)) =
            (IF Parsed[xml_paths[k]].raised THEN 0
             ELSE Len(Parsed[xml_paths[k]].tagged))

\* C4: every workbook or document handle opened for one file or call is
\* closed before the next file is started and when find_r2_pages_for_pe and
\* extract_r2_sections_for_pe return: none is then still open.
C4_NoHandleLeftOpen ==
  /\ pc = "parse" /\ 0 < path_i /\ path_i < Len(xml_paths) => open_handles = 0
  /\ pc \in {"scan", "fuse"} => open_handles = 0

(***************************************************************************)
(* Further claims about the row walker                                     *)
(***************************************************************************)
\* this step read a PROJECT, PROJECTS or PRJ row
ReadProjectRow ==
  /\ ReadRow
  /\ ~IsBlankRow(row_vals')
  /\ RowType(hdr_map, row_vals') \in {sPROJECT, sPROJECTS, sPRJ}

\* the record this step appended to the walker's results
Emitted == walk'.results[Len(walk'.results)]

\* this step appended exactly one record
EmitsOne ==
  /\ Len(walk'.results) = Len(walk.results) + 1
  /\ SubSeq(walk'.results, 1, Len(walk.results)) = walk.results

\* the text of a cell of the row just read, "" when absent or unmapped
CellText(key) == Norm(Gv(hdr_map, row_vals', key))

\* the FY amounts of the emitted record are those of the row's own cells
OwnAmounts ==
  /\ Emitted.FY2023_Cost = ParseFloatSafeAny(Gv(hdr_map, row_vals', "FY2023_Cost"))
  /\ Emitted.FY2024_Cost = ParseFloatSafeAny(Gv(hdr_map, row_vals', "FY2024_Cost"))
  /\ Emitted.FY2025_Base_Cost =
       ParseFloatSafeAny(Gv(hdr_map, row_vals', "FY2025_Base_Cost"))

\* C11 as stated: a PROJECT, PROJECTS or PRJ row sets currentProject number
\* and name from the row's project-number and title cells and emits exactly
\* one "Project Totals" record with the current PE, the row's project number
\* and name and the row's own FY values.
C11_ProjectRowSetsContextFromCells ==
  [][ReadProjectRow
     => /\ EmitsOne
        /\ Norm(walk'.current_proj_num) = CellText("ProjectNumber")
        /\ Norm(walk'.current_proj_name) = CellText("Title")
        /\ Emitted.CostCategory = sProjectTotals
        /\ Emitted.PENumber = Norm(walk.current_pe_num)
        /\ Emitted.PEName = Norm(walk.current_pe_name)
        /\ Emitted.ProjectNumber = CellText("ProjectNumber")
        /\ Emitted.ProjectName = CellText("Title")
        /\ OwnAmounts]_vars

\* C11 amended: a PROJECT, PROJECTS or PRJ row sets currentProject number
\* and name to the row's project-number and title cell values where the cell
\* is non-empty and keeps the previous value where it is empty or unmapped,
\* leaves currentPE alone, and emits exactly one "Project Totals" record
\* with the current PE, the updated currentProject and the row's own FY
\* values; a PE row followed by a PROJECT row yields exactly one record.
C11_ProjectRowEmitsTotals ==
  /\ [][ReadProjectRow
        => /\ EmitsOne
           /\ Norm(walk'.current_proj_num) =
                IF CellText("ProjectNumber") # <<>> THEN CellText("ProjectNumber")
                ELSE Norm(walk.current_proj_num)
           /\ Norm(walk'.current_proj_name) =
                IF CellText("Title") # <<>> THEN CellText("Title")
                ELSE Norm(walk.current_proj_name)
           /\ walk'.current_pe_num = walk.current_pe_num
           /\ walk'.current_pe_name = walk.current_pe_name
           /\ Emitted.CostCategory = sProjectTotals
           /\ Emitted.PENumber = Norm(walk.current_pe_num)
           /\ Emitted.PEName = Norm(walk.current_pe_name)
           /\ Emitted.ProjectNumber = Norm(walk'.current_proj_num)
           /\ Emitted.ProjectName = Norm(walk'.current_proj_name)
           /\ OwnAmounts]_vars
  /\ [][(ReadProjectRow /\ rows_read = 1 /\ last_marker = "PE")
        => Len(walk'.results) = 1]_vars

\* the header of the R-1D sheet, a PE row and a PROJECT row have been read
C11_Witness ==
  /\ hdr_map = HeaderMap(R1dHeaderRow)
  /\ rows_read = 2
  /\ last_marker = "PROJECT"
  /\ walk.results =
       << [PENumber |-> sA1, PEName |-> sTitleHyp, ProjectNumber |-> sProj001,
           ProjectName |-> sTitleFlt, CostCategory |-> sProjectTotals,
           FY2023_Cost |-> Some(10), FY2024_Cost |-> Some(12),
           FY2025_Base_Cost |-> Some(1500), R1D_Description |-> sDescTrimmed] >>

\* the context of the walker
Context(w) ==
  <<w.current_pe_num, w.current_pe_name, w.current_proj_num, w.current_proj_name>>

\* this step read a leaf row that is no summary duplicate
ReadLeafRow ==
  /\ ReadRow
  /\ IsLeaf(row_vals')
  /\ ~SummaryText(LeafCategory(hdr_map, row_vals'))

\* this step read a PE, PROJECT, PROJECTS or PRJ row
ReadContextRow ==
  /\ ReadRow
  /\ ~IsBlankRow(row_vals')
  /\ RowType(hdr_map, row_vals') \in ContextTypes

\* C12: a leaf row that is no summary duplicate emits exactly one record
\* attributed to the context of the most recent PE and PROJECT rows; the
\* context persists over every row that is no PE or PROJECT row; a leaf row
\* before any PE or PROJECT row is emitted with empty PENumber and PEName.
C12_LeafRowsUnderContext ==
  /\ [][ReadLeafRow
        => /\ EmitsOne
           /\ Emitted.PENumber = Norm(walk.current_pe_num)
           /\ Emitted.PEName = Norm(walk.current_pe_name)
           /\ Emitted.ProjectNumber = Norm(walk.current_proj_num)
           /\ Emitted.ProjectName = Norm(walk.current_proj_name)
           /\ OwnAmounts]_vars
  /\ [][~ReadContextRow => Context(walk') = Context(walk)]_vars
  /\ [][(ReadLeafRow /\ last_marker = "none")
        => /\ EmitsOne
           /\ Emitted.PENumber = <<>>
           /\ Emitted.PEName = <<>>]_vars

\* a leaf row before any PE row, a PE row, and a leaf row under it
C12_Witness ==
  /\ rows_read = 3
  /\ last_marker = "PE"
  /\ IsLeaf(row_vals)
  /\ Len(walk.results) = 2
  /\ walk.results[1].PENumber = <<>>
  /\ walk.results[1].PEName = <<>>
  /\ walk.results[2].PENumber = sA1
  /\ walk.results[2].PEName = sTitleHyp
  /\ walk.results[2].CostCategory = sTitleTest

(***************************************************************************)
(* Claims about the records of parse_r3_projects                           *)
(***************************************************************************)
\* a trimmed string, never null
TrimmedStr(v) == v # None /\ IsStr(v) /\ Strip(v) = v

\* C13: every record parse_r3_projects returns has at least one of
\* PENumber, ProjectNumber, CostCategory non-empty after trimming, and its
\* five string fields are trimmed strings, never null.
C13_RecordsIdentifiedAndTrimmed ==
  \A i \in 1..Len(results) :
    /\ \/ Strip(results[i].PENumber) # <<>>
       \/ Strip(results[i].ProjectNumber) # <<>>
       \/ Strip(results[i].CostCategory) # <<>>
    /\ TrimmedStr(results[i].PENumber)
    /\ TrimmedStr(results[i].PEName)
    /\ TrimmedStr(results[i].ProjectNumber)
    /\ TrimmedStr(results[i].ProjectName)
    /\ TrimmedStr(results[i].CostCategory)

\* the FY cells of the row or cost line just read
CostCellsRead == {4, 5, 6}

\* the amount the last record holds for FY cell k
AmountOf(k) ==
  CASE k = 4 -> results[Len(results)].FY2023_Cost
    [] k = 5 -> results[Len(results)].FY2024_Cost
    [] k = 6 -> results[Len(results)].FY2025_Base_Cost

\* cells that are absent or blank
AbsentCells == {None, sEmpty, sBlank}

\* texts that are no number
UnparseableTexts == {sNotANumber, <<"a", "b", "c">>, <<"1", ".", "0", ".", "0">>, <<"-">>, <<".">>, <<",">>, <<"1", " ", "2">>}

\* cells that hold zero
ZeroCells == {Num(0), sZero, <<" ", "0", " ">>, <<"0", ".", "0">>, <<"-", "0">>, <<"+", "0">>}

\* C14: the parsed amount of a cost cell is null when the cell is absent,
\* blank or no number, and never zero then; a cell holding numeric zero or
\* the text "0" parses to 0; a bad cost cell neither drops the row nor
\* raises.
C14_AbsentIsNotZero ==
  /\ Len(results) = rows_read
  /\ rows_read > 0 =>
       \A k \in CostCellsRead :
         /\ row_vals[k] \in AbsentCells \cup UnparseableTexts => AmountOf(k) = NoneVal
         /\ row_vals[k] \in ZeroCells => AmountOf(k) = Some(0)
         /\ AmountOf(k) = Some(0) => row_vals[k] \in ZeroCells
         /\ row_vals[k] \in {sTwelve, <<" ", "1", "2", " ">>} => AmountOf(k) = Some(12)
         /\ row_vals[k] = sFifteenHundred => AmountOf(k) = Some(1500)

\* a row with a text that is no number, an absent cell and a zero has been
\* read, and its record holds null, null and 0
C14_Witness ==
  /\ rows_read = MaxCellRows
  /\ Len(results) = MaxCellRows
  /\ row_vals[4] = sNotANumber /\ row_vals[5] = None /\ row_vals[6] = sZero
  /\ AmountOf(4) = NoneVal /\ AmountOf(5) = NoneVal /\ AmountOf(6) = Some(0)

\* the records of the XML export
XmlDocRecords == ParseXmlFile(Files.x)

\* the records file k of the list has contributed, in order
RecordsOfFile(k) ==
  [j \in 1..Cardinality(FromFile(k)) |-> results[SetMin(FromFile(k)) + j - 1]]

\* the records the XML parser alone makes of the file
OnlyXml(f) == [j \in 1..Len(ParseXmlFile(f)) |-> ParseXmlFile(f)[j].rec]

\* the records the spreadsheet parser alone makes of the file
OnlyXlsx(f) ==
  [j \in 1..Len(ParseXlsxFile(f).tagged) |-> ParseXlsxFile(f).tagged[j].rec]

\* XML first, and the spreadsheet parser exactly when that yields nothing
XmlThenXlsx(f) == IF OnlyXml(f) # <<>> THEN OnlyXml(f) ELSE OnlyXlsx(f)

\* the path ends, case-insensitively, in one of the extensions
HasExtension(path, exts) == \E e \in exts : EndsWith(Lower(path), e)

\* the files of the list read so far that exist, when nothing was raised
Dispatched == {k \in 1..path_i : Files[xml_paths[k]].isfile}

\* what a file contributes when the extensions in xmlOnly go only to the
\* XML parser, .xlsx and .xlsm only to the spreadsheet parser, and every
\* other extension to the XML parser first
ContributionUnder(xmlOnly, f) ==
  IF HasExtension(f.path, xmlOnly) THEN OnlyXml(f)
  ELSE IF HasExtension(f.path, {<<".", "x", "l", "s", "x">>, <<".", "x", "l", "s", "m">>})
  THEN OnlyXlsx(f)
  ELSE XmlThenXlsx(f)

\* the contributions with .xml, .xls and .xlt as the XML-only extensions
StatedContribution ==
  [id \in FileIds |->
     ContributionUnder({<<".", "x", "m", "l">>, <<".", "x", "l", "s">>, <<".", "x", "l", "t">>}, Files[id])]

\* the contributions with .mxl among the XML-only extensions as well
ContributionWithMxl ==
  [id \in FileIds |->
     ContributionUnder({<<".", "x", "m", "l">>, <<".", "x", "l", "s">>, <<".", "x", "l", "t">>,
                        <<".", "m", "x", "l">>}, Files[id])]

\* C15 as stated: .xml, .xls and .xlt go only to the XML parser, .xlsx and
\* .xlsm only to the spreadsheet parser, any other extension to the XML
\* parser first and to the spreadsheet parser exactly when that yields no
\* record.
C15_DispatchByExtension ==
  \A k \in Dispatched :
    RecordsOfFile(k) = StatedContribution[xml_paths[k]]

\* C15 amended: .xml, .xls, .xlt and .mxl go only to the XML parser, .xlsx
\* and .xlsm only to the spreadsheet parser, any other extension to the XML
\* parser first and to the spreadsheet parser exactly when that yields no
\* record; the extension is compared lower-cased.
C15_DispatchWithMxl ==
  \A k \in Dispatched :
    RecordsOfFile(k) = ContributionWithMxl[xml_paths[k]]

\* a file of another extension that the XML parser reads, and one that only
\* the spreadsheet parser reads, have both contributed
C15_Witness ==
  /\ pc = "done"
  /\ xml_paths = <<"w", "o">>
  /\ RecordsOfFile(1) = [j \in 1..Len(XmlDocRecords) |-> XmlDocRecords[j].rec]
  /\ RecordsOfFile(1) # <<>>
  /\ Cardinality(FromFile(2)) = 2
  /\ open_handles = 1

(***************************************************************************)
(* Claims about the R-2 extraction                                         *)
(***************************************************************************)
\* the concatenated text of the matched pages
PageText == JoinPages(pages)

\* what was carved for the PE, and the bundle returned
CarvedNow == narr[sA1]

BundleNow == r2_lookup[sA1]

\* a capital letter and a period opening a line of the text at token j
HeadingAt(text, j) ==
  /\ j > 1 /\ text[j - 1] = "\n"
  /\ \/ text[j] \in {tMission, tAccomplishments, tAcquisition}
     \/ text[j] = "E." /\ j < Len(text) /\ text[j + 1] \in WhiteTokens

\* the first place of the anchor in the text, 0 when it is absent
AnchorPlace(text, anchor) == FirstOrNone({i \in 1..Len(text) : text[i] = anchor})

\* the boundaries after place i: a following anchor of end_anchors or a
\* heading anywhere later in the text
BoundariesAfter(text, i, end_anchors) ==
  {j \in (i + 1)..Len(text) : text[j] \in end_anchors \/ HeadingAt(text, j)}

\* the section as stated: from just after the anchor at i up to the nearest
\* following boundary, or to the end of the text when none follows
SectionUpToBoundary(text, i, end_anchors) ==
  IF i = 0 THEN None
  ELSE IF BoundariesAfter(text, i, end_anchors) = {}
       THEN NormalizeText(SubSeq(text, i + 1, Len(text)))
  ELSE NormalizeText(SubSeq(text, i + 1,
                            SetMin(BoundariesAfter(text, i, end_anchors)) - 1))

\* C16: for each of the three anchors found, the carved section is the
\* whitespace-normalised text from just after the anchor up to the nearest
\* following boundary, a generic capital-letter-plus-period heading anywhere
\* later in the text included; only when no boundary follows does a section
\* run to the end of the text.
C16_SectionsEndAtNearestBoundary ==
  pc = "extracted" =>
    /\ CarvedNow.mission =
         SectionUpToBoundary(PageText, AnchorPlace(PageText, tMission),
                             {tAccomplishments, tAcquisition})
    /\ CarvedNow.accomplishments =
         SectionUpToBoundary(PageText, AnchorPlace(PageText, tAccomplishments),
                             {tAcquisition})
    /\ CarvedNow.acquisition =
         SectionUpToBoundary(PageText, AnchorPlace(PageText, tAcquisition), {})

\* the label at i is followed, past white space and at most one ":" or "-",
\* by one of the answers
LabelFollowedBy(text, i, answers) ==
  /\ text[i] = tNewStart
  /\ \E j \in (i + 1)..Len(text) :
       /\ text[j] \in answers
       /\ \A k \in (i + 1)..(j - 1) : text[k] \in WhiteTokens \cup {":", "-"}
       /\ Cardinality({k \in (i + 1)..(j - 1) : text[k] \in {":", "-"}}) <= 1

SaysYes(text) == {i \in 1..Len(text) : LabelFollowedBy(text, i, {"Yes", "YES", "yes"})}

SaysNo(text) == {i \in 1..Len(text) : LabelFollowedBy(text, i, {"No", "NO", "no"})}

ReadBlankRow ==
  /\ IsBlankRow(row_vals')
  /\ rows_read' = rows_read
  /\ walk' # walk

\* C18: the walk stops at the first run of 10 consecutive blank rows and
\* nothing is read after it; a blank row changes neither context nor
\* results; a non-blank row after a run of 9 or fewer blank rows resets the
\* blank counter and the walk continues; the walk terminates.
C18_StopsAfterTenBlankRows ==
  /\ [](walk.blank_streak <= 10 /\ (walk.blank_streak = 10 => pc = "walked"))
  /\ [][pc = "walked" => (walk' = walk /\ pc' = "walked")]_vars
  /\ [][ReadBlankRow
        => /\ walk' = [walk EXCEPT !.blank_streak = walk.blank_streak + 1]
           /\ pc' = IF walk.blank_streak = 9 THEN "walked" ELSE "walk"]_vars
  /\ [][ReadRow => (walk.blank_streak <= 9 /\ walk'.blank_streak = 0 /\ pc' = "walk")]_vars
  /\ <>(pc = "walked")

\* two rows have been read and emitted, then ten blank rows ended the walk
C18_Witness ==
  /\ pc = "walked"
  /\ walk.blank_streak = 10
  /\ rows_read = 2
  /\ Len(walk.results) = 2
  /\ IsBlankRow(row_vals)

(***************************************************************************)
(* Claims about header detection and the field map                         *)
(***************************************************************************)
\* the rows of the worksheet within the search bound
SearchedRows == {i \in 1..Len(sheet_rows) : i <= 50}

\* C19: header detection returns the first row among the first 50 that
\* carries a header signature, never a later one, the same row on every
\* call, and a worksheet without such a row contributes no record.
C19_FirstHeaderRowWins ==
  /\ \A k \in 1..Len(header_rows) :
       /\ header_rows[k] # 0 =>
            /\ header_rows[k] \in SearchedRows
            /\ IsHeaderRow(sheet_rows[header_rows[k]])
            /\ \A j \in 1..(header_rows[k] - 1) : ~IsHeaderRow(sheet_rows[j])
       /\ header_rows[k] = 0 => \A j \in SearchedRows : ~IsHeaderRow(sheet_rows[j])
       /\ header_rows[k] = header_rows[1]
  /\ (pc = "sheet done" /\ HeaderRowFound = 0) => results = <<>>

\* row 50 is a header row and so is row 51; two calls returned 50 and the
\* rows below it gave records
C19_Witness ==
  /\ pc = "sheet scanned"
  /\ header_rows = <<50, 50>>
  /\ Len(sheet_rows) = 51
  /\ IsHeaderRow(sheet_rows[51])
  /\ results # <<>>

\* the header row has been mapped
HeaderMapped ==
  /\ pc \in {"mapped", "sheet done", "sheet walked", "sheet scanned"}
  /\ header_rows # <<>>
  /\ HeaderRowFound # 0

\* C20: no column is the value of two fields of the field map, and a field
\* keeps the first column whose header cell matches it.
C20_OneFieldPerColumn ==
  HeaderMapped =>
    /\ \A f, g \in DOMAIN hdr_map : hdr_map[f] = hdr_map[g] => f = g
    /\ \A f \in DOMAIN hdr_map :
         \A c \in FieldColumns(sheet_rows[HeaderRowFound], f) : hdr_map[f] <= c

(***************************************************************************)
(* Claims about the choice of reader and the generic sheet                 *)
(***************************************************************************)
\* the rows at which a run of 5 blank rows below the header row is complete
ScanStops ==
  {i \in (HeaderRowFound + 5)..Len(sheet_rows) :
     \A j \in (i - 4)..i : IsBlankRow(sheet_rows[j])}

\* the rows below the header row and above the end of the first such run
ScannedRows ==
  {i \in (HeaderRowFound + 1)..Len(sheet_rows) : \A s \in ScanStops : i < s}

\* the scanned data rows with a PENumber or a ProjectNumber
ContributingRows ==
  {i \in ScannedRows :
     /\ ~IsBlankRow(sheet_rows[i])
     /\ \/ Strip(Or(Gv(hdr_map, sheet_rows[i], "PENumber"), <<>>)) # <<>>
        \/ Strip(Or(Gv(hdr_map, sheet_rows[i], "ProjectNumber"), <<>>)) # <<>>}

\* the k-th smallest member of a set of numbers
NthOf(S, k) == CHOOSE x \in S : Cardinality({y \in S : y < x}) = k - 1

\* C21: a worksheet goes to the row walker exactly when its field map has
\* Type, PENumber and ProjectNumber; any other is read as a generic sheet,
\* whose records are those of the data rows with a PENumber or a
\* ProjectNumber, in row order, up to the first run of 5 blank rows.
C21_ReaderChoiceAndGenericScan ==
  /\ pc = "sheet walked" => {"Type", "PENumber", "ProjectNumber"} \subseteq DOMAIN hdr_map
  /\ pc = "sheet scanned" =>
       /\ ~({"Type", "PENumber", "ProjectNumber"} \subseteq DOMAIN hdr_map)
       /\ Len(results) = Cardinality(ContributingRows)
       /\ \A k \in 1..Len(results) :
            /\ results[k] = GenericRecord(hdr_map, sheet_rows[NthOf(ContributingRows, k)])
            /\ results[k].PENumber # <<>> \/ results[k].ProjectNumber # <<>>

\* a generic sheet: the header row, a data row, 5 blank rows and a data row
\* with identifiers that the scan did not reach
C21_Witness ==
  /\ pc = "sheet scanned"
  /\ HeaderRowFound = 1
  /\ Len(sheet_rows) = 8
  /\ \A j \in 3..7 : IsBlankRow(sheet_rows[j])
  /\ Gv(hdr_map, sheet_rows[8], "PENumber") = sB2
  /\ Len(results) = 1

(***************************************************************************)
(* Claims about what fusion leaves alone                                   *)
(***************************************************************************)
\* C22: fuse_r3_with_r2 only reads its inputs: the lookup keeps its keys
\* and its bundles, which are those built from what was carved, and the
\* input rows stay as they were, also when the fallback puts a description
\* into the output record.
C22_FusionOnlyReads ==
  /\ [](r2_lookup = [k \in DOMAIN narr |-> R2Return(narr[k])])
  /\ [][r2_lookup' = r2_lookup /\ r3_rows' = r3_rows]_vars

\* fusion has returned; a row with a bundle got its description as
\* accomplishments text and the bundle still has none
C22_Witness ==
  /\ pc # "fuse"
  /\ use_r1d_description
  /\ \E i \in 1..Len(enriched) :
       /\ Strip(Or(r3_rows[i].PENumber, <<>>)) \in DOMAIN r2_lookup
       /\ ~Truthy(r2_lookup[Strip(Or(r3_rows[i].PENumber, <<>>))].accomplishments)
       /\ Truthy(enriched[i].AccomplishmentsText)
       /\ enriched[i].AccomplishmentsText = Strip(Or(r3_rows[i].R1D_Description, <<>>))

(***************************************************************************)
(* Claims about the scan of the PDFs                                       *)
(***************************************************************************)
\* run_batch has begun (or finished) the scan of a non-empty PDF list
ScanBegun ==
  /\ pc \notin {"parse", "raised"}
  /\ ~skip_r2
  /\ pdf_files # <<>>

\* the PDFs of the list, by position, that have pages for the PE and whose
\* extraction succeeds
GoodPdfs(pe) ==
  {j \in 1..Len(pdf_files) :
     /\ Pdfs[pdf_files[j]].opens
     /\ pe \in DOMAIN Pdfs[pdf_files[j]].carved
     /\ pe \notin Pdfs[pdf_files[j]].fails}

\* C23: during the scan the keys of r2_lookup and unresolved are disjoint
\* and together are the unique non-empty trimmed PENumbers of the parsed
\* rows; a bundle comes from the first PDF of the list with pages for the PE
\* and a successful extraction and is never replaced; no further PDF is
\* taken once unresolved is empty.
C23_ScanPartitionsAndFirstPdfWins ==
  /\ [](ScanBegun =>
          /\ DOMAIN r2_lookup \cap unresolved = {}
          /\ DOMAIN r2_lookup \cup unresolved = UniquePEs(results)
          /\ \A pe \in DOMAIN r2_lookup :
               /\ GoodPdfs(pe) # {}
               /\ SetMin(GoodPdfs(pe)) <= pdf_i
               /\ r2_lookup[pe] =
                    R2Return(Pdfs[pdf_files[SetMin(GoodPdfs(pe))]].carved[pe]))
  /\ [][\A pe \in DOMAIN r2_lookup :
          pe \in DOMAIN r2_lookup' /\ r2_lookup'[pe] = r2_lookup[pe]]_vars
  /\ [][(pc = "scan" /\ unresolved = {}) => pdf_i' = pdf_i]_vars

\* the first PDF had pages for A1 but its extraction failed, the second
\* resolved A1 and B2, and the scan is over
C23_Witness ==
  /\ pc = "fuse"
  /\ pdf_files = <<"e", "q">>
  /\ pdf_i = 2
  /\ DOMAIN r2_lookup = {sA1, sB2}
  /\ unresolved = {}
  /\ r2_lookup[sA1] = R2Return(Pdfs.q.carved[sA1])

(***************************************************************************)
(* Claims about the threaded tagging                                       *)
(***************************************************************************)
\* tag_relevance_batch has returned from its threaded path
ThreadedDone == pc = "tagged" /\ api_key

\* C24: whatever the order of completion, the returned list has one entry
\* per row, the i-th being what the task of rows[i] returned, no slot is
\* left unfilled, every label is High, Medium or Low, and a task whose LLM
\* call failed carries the rule-based tag of its row.
C24_ThreadedTagsInOrderWithFallback ==
  ThreadedDone =>
    /\ Len(tags) = Len(tag_rows)
    /\ \A i \in 1..Len(tags) :
         /\ out[i] # None
         /\ tags[i] = <<futures[i].result[2], futures[i].result[3]>>
         /\ futures[i].result[1] = i
         /\ tags[i][1] \in {"High", "Medium", "Low"}
         /\ futures[i].reply.kind = "error" =>
              tags[i] = RuleBasedRelevance(BuildCorpus(tag_rows[i]), TagKeywords)

(***************************************************************************)
(* Claims about rows without a Type                                        *)
(***************************************************************************)
\* the Type cell of the row is missing, None or white space
UntypedRow(rv) ==
  \/ hdr_map["Type"] + 1 > Len(rv)
  \/ rv[hdr_map["Type"] + 1] = None
  \/ /\ IsStr(rv[hdr_map["Type"] + 1])
     /\ Strip(rv[hdr_map["Type"] + 1]) = <<>>

\* C25: every non-blank row emits no or one record, and a non-blank row
\* without a Type emits none and leaves the PE and project context as it
\* was, whatever its title, description and FY cells hold.
C25_UntypedRowsAreDropped ==
  /\ [][ReadRow
        => \/ walk'.results = walk.results
           \/ EmitsOne]_vars
  /\ [][(ReadRow /\ UntypedRow(row_vals'))
        => /\ walk'.results = walk.results
           /\ Context(walk') = Context(walk)]_vars

\* a PROJECT row gave a record, then a row with a title, a description and
\* an FY2023 amount but no Type was read and gave none
C25_Witness ==
  /\ rows_read = 2
  /\ last_marker = "PROJECT"
  /\ Len(walk.results) = 1
  /\ UntypedRow(row_vals)
  /\ ~IsBlankRow(row_vals)
  /\ Gv(hdr_map, row_vals, "FY2023_Cost") # None
  /\ Gv(hdr_map, row_vals, "Title") # None

====
